---- MODULE Spec2Model ----
(***************************************************************************)
(* A model of smart-llm-router: the conversation state store               *)
(* (services/conversation_state.py), the message classifier                *)
(* (services/classifier.py), the routing engine (services/router.py) and   *)
(* the chat endpoint that wraps it (main.py).                              *)
(*                                                                         *)
(* Time is counted in ticks, TicksPerHour of them to the 3600 seconds of    *)
(* the source.                                                             *)
(***************************************************************************)
EXTENDS Integers, Sequences, FiniteSets, TLC

(***************************************************************************)
(* Bounds of the model.                                                    *)
(***************************************************************************)
\* The clock's resolution, and the tick at which it stops.
TicksPerHour == 2
MaxTime == 3
\* message_count_since_upgrade is explored up to MaxCount.
MaxCount == 2
\* ConversationStateManager(max_conversations, cleanup_after_hours): the
\* constructor's arguments (1000 and 24 in the global instance), scaled down.
max_conversations == 1
cleanup_after_hours == 1

(***************************************************************************)
(* Program constants.                                                      *)
(***************************************************************************)
\* state.vision_sticky_count = 3
VisionStickyTurns == 3
\* state.heavy_context_sticky_count = 2
HeavyStickyTurns == 2
\* time.time() - self.last_cleanup < 3600, in hours
CleanupIntervalHours == 1
\* The same in ticks, and self.cleanup_after_seconds in ticks.
cleanup_interval == CleanupIntervalHours * TicksPerHour
cleanup_after == cleanup_after_hours * TicksPerHour

ConvIds == {"c1", "c2"}
Tasks == {1, 2}
Oids == 1..4
NoObj == 0
Keywords == {"k1", "k2"}
Tiers == {"simple", "hard", "escalation", "research"}
NoModel == "None"

VARIABLES
    \* ConversationStateManager
    states,        \* self.states: conversation id -> the state object (NoObj: no key)
    heap,          \* the ConversationState objects, by identity
    last_cleanup,  \* self.last_cleanup
    now,           \* time.time()
    \* the store's callers: the reference each got from get_or_create_state
    handle,
    \* one chat request in flight per slot of Reqs
    pc,            \* where the request stands
    request,       \* the ChatRequest's messages, as the router reads them
    target_model,  \* route_and_process: target_model
    model_tier,    \* route_and_process: model_tier
    client,        \* route_and_process: client.provider_name ("none": no client)
    category,      \* what classify_message returned
    reply,         \* classify_message: the classifier's reply, while it is in scope
    backend,       \* what the target's generate_response did
    raised,        \* the exception route_and_process ended with
    response,      \* what the endpoint sent back
    \* what the request has done so far
    classifier_calls,  \* generate_response calls on the classifier's client
    resolutions,       \* get_llm_client_and_model_details calls of route_and_process
    generated,         \* generate_response calls on the target's client
    \* two callers' read-modify-write of one conversation, for comparison
    rmw,           \* per caller: how far it is, the messages and arguments it used
    base,          \* the conversation's state when the first of the two began
    \* one call of a function that reads no state of the service
    call,          \* the function called and its arguments
    ret,           \* what it returned
    \* what a caller of the store keeps of its own calls, for comparison
    last,          \* its last call: the arguments, and the store as the call found it
    turns,         \* the updates it has made since the last one that saw an image
                   \* or a heavy context
    \* the routing configuration
    config_file,   \* the version of the configuration file on disk
    loaded,        \* the version whose values the global `settings` holds
    config_read    \* per request: the versions its reads of `settings` have seen

storeVars == <<states, heap, last_cleanup, now, handle>>
routerVars == <<pc, request, target_model, model_tier, client, category, reply,
                backend, raised, response, classifier_calls, resolutions, generated>>
rmwVars == <<rmw, base>>
callVars == <<call, ret>>
histVars == <<last, turns>>
confVars == <<config_file, loaded, config_read>>
vars == <<states, heap, last_cleanup, now, handle,
          pc, request, target_model, model_tier, client, category, reply,
          backend, raised, response, classifier_calls, resolutions, generated,
          rmw, base, call, ret, last, turns, config_file, loaded, config_read>>

(***************************************************************************)
(* ConversationState                                                       *)
(***************************************************************************)
\* ConversationState(conversation_id=..., topic_keywords=...): the dataclass
\* defaults, and __post_init__ stamping last_activity.
ConversationState(conversation_id, topic_keywords, t) ==
    [conversation_id |-> conversation_id,
     active_model_tier |-> "simple",
     last_model_used |-> NoModel,
     has_vision_content |-> FALSE,
     vision_sticky_count |-> 0,
     heavy_context_active |-> FALSE,
     heavy_context_sticky_count |-> 0,
     message_count_since_upgrade |-> 0,
     last_activity |-> t,
     topic_keywords |-> topic_keywords]

\* A slot of the heap that holds no object.
FreeObj == ConversationState("free", {}, 0)

\* A message list as the store reads it: its fingerprint
\* (_generate_conversation_id), whether its last message holds an explicit
\* topic-change indicator, and the keywords _extract_topic_keywords finds.
MessageLists(ids, kws) ==
    [cid : ids, marker : BOOLEAN, kw : kws]

(***************************************************************************)
(* update_state_after_routing                                              *)
(***************************************************************************)
\* update_vision with the `if state.vision_sticky_count == 0` reset left out.
update_vision_keeps_flag(s, had_vision) ==
    IF had_vision
    THEN [s EXCEPT !.has_vision_content = TRUE,
                   !.vision_sticky_count = VisionStickyTurns,
                   !.active_model_tier = "hard"]
    ELSE IF s.vision_sticky_count > 0
    THEN [s EXCEPT !.vision_sticky_count = @ - 1]
    ELSE s

update_vision(s, had_vision) ==
    IF had_vision
    THEN [s EXCEPT !.has_vision_content = TRUE,
                   !.vision_sticky_count = VisionStickyTurns,
                   !.active_model_tier = "hard"]
    ELSE IF s.vision_sticky_count > 0
    THEN [s EXCEPT !.vision_sticky_count = @ - 1,
                   !.has_vision_content =
                       IF s.vision_sticky_count - 1 = 0 THEN FALSE ELSE @]
    ELSE s

\* update_heavy opening the window the vision branch opens.
update_heavy_sticks_three(s, had_heavy_context) ==
    IF had_heavy_context
    THEN [s EXCEPT !.heavy_context_active = TRUE,
                   !.heavy_context_sticky_count = VisionStickyTurns,
                   !.active_model_tier = "hard"]
    ELSE IF s.heavy_context_sticky_count > 0
    THEN [s EXCEPT !.heavy_context_sticky_count = @ - 1,
                   !.heavy_context_active =
                       IF s.heavy_context_sticky_count - 1 = 0 THEN FALSE ELSE @]
    ELSE s

update_heavy(s, had_heavy_context) ==
    IF had_heavy_context
    THEN [s EXCEPT !.heavy_context_active = TRUE,
                   !.heavy_context_sticky_count = HeavyStickyTurns,
                   !.active_model_tier = "hard"]
    ELSE IF s.heavy_context_sticky_count > 0
    THEN [s EXCEPT !.heavy_context_sticky_count = @ - 1,
                   !.heavy_context_active =
                       IF s.heavy_context_sticky_count - 1 = 0 THEN FALSE ELSE @]
    ELSE s

update_tier(s, tier) ==
    IF tier # s.active_model_tier
    THEN [s EXCEPT !.message_count_since_upgrade = 0,
                   !.active_model_tier = tier]
    ELSE [s EXCEPT !.message_count_since_upgrade = @ + 1]

update_state_after_routing(state, selected_model, tier, had_vision, had_heavy_context, t) ==
    update_tier(
        update_heavy(
            update_vision(
                [state EXCEPT !.last_model_used = selected_model,
                              !.last_activity = t],
                had_vision),
            had_heavy_context),
        tier)

should_stick_to_vision_model(s) ==
    s.has_vision_content /\ s.vision_sticky_count > 0

should_stick_to_heavy_model(s) ==
    \/ s.heavy_context_active /\ s.heavy_context_sticky_count > 0
    \/ should_stick_to_vision_model(s)

(***************************************************************************)
(* Topic drift                                                             *)
(***************************************************************************)
\* _detect_topic_change with `<=` for `<` at the 30% threshold.
detect_topic_change_inclusive(m, current_state) ==
    \/ m.marker
    \/ /\ current_state.topic_keywords # {}
       /\ m.kw # {}
       /\ LET overlap == Cardinality(m.kw \cap current_state.topic_keywords)
              total_unique == Cardinality(m.kw \cup current_state.topic_keywords)
          IN  total_unique > 0 /\ 10 * overlap <= 3 * total_unique

\* overlap / total_unique < 0.3, on the integers
detect_topic_change(m, current_state) ==
    \/ m.marker
    \/ /\ current_state.topic_keywords # {}
       /\ m.kw # {}
       /\ LET overlap == Cardinality(m.kw \cap current_state.topic_keywords)
              total_unique == Cardinality(m.kw \cup current_state.topic_keywords)
          IN  total_unique > 0 /\ 10 * overlap < 3 * total_unique

\* The topic-change reset taking one turn off the vision window, not all.
reset_sticky_decays(s) ==
    [s EXCEPT !.vision_sticky_count = IF @ > 0 THEN @ - 1 ELSE 0,
              !.heavy_context_sticky_count = 0,
              !.message_count_since_upgrade = 0,
              !.active_model_tier = "simple"]

\* The topic-change reset dropping the vision flag with the counters.
reset_sticky_clears_flag(s) ==
    [s EXCEPT !.vision_sticky_count = 0,
              !.heavy_context_sticky_count = 0,
              !.message_count_since_upgrade = 0,
              !.active_model_tier = "simple",
              !.has_vision_content = FALSE]

\* The reset get_or_create_state applies on a detected topic change.
reset_sticky(s) ==
    [s EXCEPT !.vision_sticky_count = 0,
              !.heavy_context_sticky_count = 0,
              !.message_count_since_upgrade = 0,
              !.active_model_tier = "simple"]

(***************************************************************************)
(* Eviction                                                                *)
(***************************************************************************)
Keys(st) == {c \in ConvIds : st[c] # NoObj}

\* The pass without its expiry step.
expired_conversations_skipped(st, hp, t) == {}

expired_conversations(st, hp, t) ==
    {c \in Keys(st) : t - hp[st[c]].last_activity > cleanup_after}

\* The capacity step sorting with reverse=True: the newest go first.
capacity_victims_newest(kept, st, hp) ==
    IF Cardinality(kept) > max_conversations
    THEN {R \in SUBSET kept :
            /\ Cardinality(R) = Cardinality(kept) - max_conversations
            /\ \A r \in R : \A k \in kept \ R :
                 hp[st[r]].last_activity >= hp[st[k]].last_activity}
    ELSE {{}}

\* The sets the capacity step may remove from the keys `kept`: the first
\* excess_count of them by last_activity. Python's sort is stable, so ties fall
\* in the dict's insertion order, which the model does not keep: every
\* oldest-first choice is allowed.
capacity_victims(kept, st, hp) ==
    IF Cardinality(kept) > max_conversations
    THEN {R \in SUBSET kept :
            /\ Cardinality(R) = Cardinality(kept) - max_conversations
            /\ \A r \in R : \A k \in kept \ R :
                 hp[st[r]].last_activity <= hp[st[k]].last_activity}
    ELSE {{}}

\* _cleanup_old_conversations: the dicts self.states may be left as.
cleanup_old_conversations(st, hp, lc, t) ==
    IF t - lc < cleanup_interval
    THEN {st}
    ELSE LET kept == Keys(st) \ expired_conversations(st, hp, t)
         IN  {[c \in ConvIds |-> IF c \in kept \ R THEN st[c] ELSE NoObj] :
                R \in capacity_victims(kept, st, hp)}

\* The pass without `self.last_cleanup = current_time`.
cleanup_stamp_kept(lc, t) == lc

cleanup_stamp(lc, t) ==
    IF t - lc < cleanup_interval THEN lc ELSE t

(***************************************************************************)
(* The heap of state objects                                               *)
(***************************************************************************)
Referenced(st, hd) == {st[c] : c \in ConvIds} \cup {hd[t] : t \in Tasks}

\* Objects nothing refers to are reclaimed.
Collect(hp, st, hd) ==
    [o \in Oids |-> IF o \in Referenced(st, hd) THEN hp[o] ELSE FreeObj]

FreshOid(st, hd) ==
    CHOOSE o \in Oids : o \notin Referenced(st, hd) /\
        \A p \in Oids : p \notin Referenced(st, hd) => o <= p

(***************************************************************************)
(* get_or_create_state, called by task t with message list m               *)
(***************************************************************************)
get_or_create_hit(s, m, t) ==
    LET touched == [s EXCEPT !.last_activity = t]
        after == IF detect_topic_change(m, touched)
                 THEN reset_sticky(touched) ELSE touched
    IN  [after EXCEPT !.topic_keywords = m.kw]

\* The look-up under one key for every message list, as if all fingerprints
\* collided.
lookup_or_create_one_key(st, t, m) ==
    /\ last_cleanup' = cleanup_stamp(last_cleanup, now)
    /\ IF st["c1"] # NoObj
       THEN /\ states' = st
            /\ handle' = [handle EXCEPT ![t] = st["c1"]]
            /\ heap' = Collect(
                   [heap EXCEPT ![st["c1"]] = get_or_create_hit(@, m, now)],
                   states', handle')
       ELSE LET o == FreshOid(st, [handle EXCEPT ![t] = NoObj])
            IN  /\ states' = [st EXCEPT !["c1"] = o]
                /\ handle' = [handle EXCEPT ![t] = o]
                /\ heap' = Collect(
                       [heap EXCEPT ![o] = ConversationState("c1", m.kw, now)],
                       states', handle')
    /\ UNCHANGED now

\* The call once _cleanup_old_conversations has left the dict st.
lookup_or_create(st, t, m) ==
    /\ last_cleanup' = cleanup_stamp(last_cleanup, now)
    /\ IF st[m.cid] # NoObj
       THEN /\ states' = st
            /\ handle' = [handle EXCEPT ![t] = st[m.cid]]
            /\ heap' = Collect(
                   [heap EXCEPT ![st[m.cid]] = get_or_create_hit(@, m, now)],
                   states', handle')
       ELSE LET o == FreshOid(st, [handle EXCEPT ![t] = NoObj])
            IN  /\ states' = [st EXCEPT ![m.cid] = o]
                /\ handle' = [handle EXCEPT ![t] = o]
                /\ heap' = Collect(
                       [heap EXCEPT ![o] = ConversationState(m.cid, m.kw, now)],
                       states', handle')
    /\ UNCHANGED now

get_or_create_state(t, m) ==
    \E st \in cleanup_old_conversations(states, heap, last_cleanup, now) :
        lookup_or_create(st, t, m)

(***************************************************************************)
(* update_state_after_routing, called by task t on the state it holds      *)
(***************************************************************************)
\* update_state_after_routing recording the selected model on every stored
\* state instead of on the one passed.
UpdateState_marks_all(t, selected_model, tier, had_vision, had_heavy_context) ==
    /\ handle[t] # NoObj
    /\ LET s == update_state_after_routing(heap[handle[t]], selected_model,
                    tier, had_vision, had_heavy_context, now)
       IN  /\ s.message_count_since_upgrade <= MaxCount
           /\ heap' = [o \in Oids |->
                         IF o = handle[t] THEN s
                         ELSE IF \E c \in ConvIds : states[c] = o
                         THEN [heap[o] EXCEPT !.last_model_used = selected_model]
                         ELSE heap[o]]
    /\ UNCHANGED <<states, last_cleanup, now, handle>>

UpdateState(t, selected_model, tier, had_vision, had_heavy_context) ==
    /\ handle[t] # NoObj
    /\ LET s == update_state_after_routing(heap[handle[t]], selected_model,
                    tier, had_vision, had_heavy_context, now)
       IN  /\ s.message_count_since_upgrade <= MaxCount
           /\ heap' = [heap EXCEPT ![handle[t]] = s]
    /\ UNCHANGED <<states, last_cleanup, now, handle>>

Tick ==
    /\ now < MaxTime
    /\ now' = now + 1
    /\ UNCHANGED <<states, heap, last_cleanup, handle>>

(***************************************************************************)
(* Configuration (config/settings.py) and the model registry               *)
(* (clients/base.py)                                                       *)
(***************************************************************************)
\* context_detection.get("token_usage_threshold", 4000)
token_usage_threshold == 4000

\* The routing names of Settings. Each stands for the logical model name the
\* configuration gives it.
settings ==
    [classifier_model |-> "classifier_model",
     simple_no_research_model |-> "simple_no_research_model",
     simple_research_model |-> "simple_research_model",
     hard_no_research_model |-> "hard_no_research_model",
     hard_research_model |-> "hard_research_model",
     escalation_model |-> "escalation_model",
     fallback_model |-> "fallback_model"]

\* target_model = "Perplexity-Research"
PerplexityResearch == "Perplexity-Research"

\* The provider_name of the clients get_llm_client_and_model_details builds.
\* (The module of the "gemini_image" provider is not among the sources.)
Providers == {"openai", "ollama", "gemini", "anthropic", "perplexity"}

\* What get_llm_client_and_model_details returns: no client and no model id
\* (the name is not configured, its entry is incomplete, its provider is
\* unsupported or initialize_client() failed), or a client of one provider with
\* its model id. Which one is a matter of model_configs and of the API keys.
NoClient == "none"
Resolutions == {NoClient} \cup Providers

(***************************************************************************)
(* A chat request, as the router and the classifier read its messages      *)
(***************************************************************************)
\* The longest message list explored.
MaxMessages == 2

NoRequest ==
    [images |-> <<>>, refs_image |-> FALSE, short |-> FALSE, title |-> FALSE,
     escalation |-> FALSE, research |-> FALSE, tokens |-> 0]

\* images[i]:   message i holds an image_url part
\* refs_image:  _references_image_content(last text)
\* short:       len(last_text.strip()) < 50
\* title:       is_title_generation_request(messages)
\* escalation:  is_escalation_request(last text)
\* research:    is_research_request(last text)
\* tokens:      the token count _detect_heavy_context sums
\* The three texts is_escalation_request accepts are short and match no title
\* pattern, no research trigger and no image keyword.
ChatRequests ==
    {NoRequest} \cup
    {q \in [images : UNION {[1..n -> BOOLEAN] : n \in 1..MaxMessages},
            refs_image : BOOLEAN, short : BOOLEAN, title : BOOLEAN,
            escalation : BOOLEAN, research : BOOLEAN,
            tokens : {token_usage_threshold, token_usage_threshold + 1}] :
        q.escalation => (q.short /\ ~q.title /\ ~q.research /\ ~q.refs_image)}

has_image_in_current_message(q) == q.images[Len(q.images)]

has_image_in_conversation(q) == \E i \in 1..Len(q.images) : q.images[i]

\* _should_use_vision_model without its `len(last_text.strip()) < 50` test.
should_use_vision_model_refs_only(q) ==
    IF Len(q.images) = 0 THEN FALSE
    ELSE IF has_image_in_current_message(q) THEN TRUE
    ELSE IF has_image_in_conversation(q) /\ q.refs_image THEN TRUE
    ELSE FALSE

should_use_vision_model(q) ==
    IF Len(q.images) = 0 THEN FALSE
    ELSE IF has_image_in_current_message(q) THEN TRUE
    ELSE IF has_image_in_conversation(q) /\ (q.refs_image \/ q.short) THEN TRUE
    ELSE FALSE

detect_heavy_context(q) == q.tokens > token_usage_threshold

(***************************************************************************)
(* The classifier (services/classifier.py)                                 *)
(***************************************************************************)
\* valid_categories, in the order _normalize_category tries them
valid_categories ==
    <<"simple_no_research", "simple_research", "hard_no_research", "hard_research">>
Labels == {valid_categories[i] : i \in 1..4}
DefaultLabel == "simple_no_research"

\* The text of a reply, lower-cased and stripped, as _normalize_category reads it:
\*   plain      no leading brace; `labels` are the labels it contains
\*   bad_json   a leading brace, json.loads raises JSONDecodeError
\*   no_key     a JSON object without a category field
\*   text       a JSON object, category is a string containing `labels`
\*   container  a JSON object, category is a list or an object holding `labels`
\*   scalar     a JSON object, category is a number, a boolean or null
Texts ==
    [form : {"plain", "text", "container"}, labels : SUBSET Labels] \cup
    [form : {"bad_json", "no_key", "scalar"}, labels : {{}}]

\* for valid_cat in valid_categories: if valid_cat in category: return valid_cat
first_valid(labels) ==
    IF \E i \in 1..4 : valid_categories[i] \in labels
    THEN valid_categories[CHOOSE i \in 1..4 :
            /\ valid_categories[i] \in labels
            /\ \A j \in 1..(i - 1) : valid_categories[j] \notin labels]
    ELSE DefaultLabel

\* _normalize_category: the label returned, or "TypeError" where `in` is
\* applied to a category that is no string and no container.
TypeError == "TypeError"
normalize_category(text) ==
    CASE text.form = "bad_json" -> DefaultLabel
      [] text.form = "no_key" -> first_valid({DefaultLabel})
      [] text.form = "scalar" -> TypeError
      [] OTHER -> first_valid(text.labels)

\* What the awaited client.generate_response of classify_message does:
\*   raises        the call raises (transport, authentication, rate limit)
\*   no_choices    a response without choices
\*   no_content    choices[0].message.content is None
\*   content       an object whose choices[0].message.content is `text`
\*                 (the OpenAI client hands on the SDK's response)
\*   dict_content  a dict whose ["choices"][0]["message"]["content"] is `text`
\*                 (the Gemini, Anthropic and Perplexity clients build one)
ClassifierReplies ==
    [kind : {"raises", "no_choices", "no_content"},
     text : {[form |-> "plain", labels |-> {}]}] \cup
    [kind : {"content", "dict_content"}, text : Texts]
NoReply == [kind |-> "none", text |-> [form |-> "plain", labels |-> {}]]

\* classify_message without its `except Exception`: what _normalize_category
\* raises leaves classify_message.
classify_outcome_uncaught(r) ==
    CASE r.kind = "raises" -> "raises"
      [] r.kind = "no_choices" -> DefaultLabel
      [] r.kind = "dict_content" -> DefaultLabel
      [] r.kind = "no_content" -> DefaultLabel
      [] OTHER -> IF normalize_category(r.text) = TypeError
                  THEN "raises"
                  ELSE normalize_category(r.text)

\* The try block of classify_message, given the reply: the label returned, or
\* "raises" should an exception leave classify_message.
classify_outcome(r) ==
    CASE r.kind = "raises" -> DefaultLabel
      [] r.kind = "no_choices" -> normalize_category([form |-> "plain", labels |-> {DefaultLabel}])
      \* hasattr(response, 'choices') is False of a dict
      [] r.kind = "dict_content" -> normalize_category([form |-> "plain", labels |-> {DefaultLabel}])
      [] r.kind = "no_content" -> DefaultLabel
      [] OTHER -> IF normalize_category(r.text) = TypeError
                  THEN DefaultLabel
                  ELSE normalize_category(r.text)

(***************************************************************************)
(* The routing engine (services/router.py)                                 *)
(***************************************************************************)
Reqs == {1}

\* The mappings with each research label given its no-research model.
get_model_mappings_no_research ==
    [simple_no_research |-> settings.simple_no_research_model,
     simple_research |-> settings.simple_no_research_model,
     hard_no_research |-> settings.hard_no_research_model,
     hard_research |-> settings.hard_no_research_model]

get_model_mappings ==
    [simple_no_research |-> settings.simple_no_research_model,
     simple_research |-> settings.simple_research_model,
     hard_no_research |-> settings.hard_no_research_model,
     hard_research |-> settings.hard_research_model]

\* _determine_model_tier handing back the label where no need forces "hard".
determine_model_tier_label(cat, needs_vision, needs_heavy_context) ==
    IF needs_vision \/ needs_heavy_context THEN "hard" ELSE cat

\* "hard" in category, "simple" in category
determine_model_tier(cat, needs_vision, needs_heavy_context) ==
    IF needs_vision \/ needs_heavy_context THEN "hard"
    ELSE IF cat \in {"hard_no_research", "hard_research"} THEN "hard"
    ELSE "simple"

\* The if/elif chain without its heavy-context branch.
heuristic_route_no_heavy(q) ==
    IF should_use_vision_model(q)
    THEN [branch |-> "vision", target_model |-> settings.hard_no_research_model,
          model_tier |-> "hard"]
    ELSE IF q.title
    THEN [branch |-> "title", target_model |-> settings.simple_no_research_model,
          model_tier |-> "simple"]
    ELSE IF q.escalation
    THEN [branch |-> "escalation", target_model |-> settings.escalation_model,
          model_tier |-> "escalation"]
    ELSE IF q.research
    THEN [branch |-> "research", target_model |-> PerplexityResearch,
          model_tier |-> "research"]
    ELSE [branch |-> "classifier", target_model |-> NoModel, model_tier |-> "none"]

\* The if/elif chain with the research test moved before the title test.
heuristic_route_research_first(q) ==
    IF should_use_vision_model(q)
    THEN [branch |-> "vision", target_model |-> settings.hard_no_research_model,
          model_tier |-> "hard"]
    ELSE IF detect_heavy_context(q)
    THEN [branch |-> "heavy_context", target_model |-> settings.hard_no_research_model,
          model_tier |-> "hard"]
    ELSE IF q.research
    THEN [branch |-> "research", target_model |-> PerplexityResearch,
          model_tier |-> "research"]
    ELSE IF q.title
    THEN [branch |-> "title", target_model |-> settings.simple_no_research_model,
          model_tier |-> "simple"]
    ELSE IF q.escalation
    THEN [branch |-> "escalation", target_model |-> settings.escalation_model,
          model_tier |-> "escalation"]
    ELSE [branch |-> "classifier", target_model |-> NoModel, model_tier |-> "none"]

\* The if/elif chain with a vision test that also holds while a stored
\* conversation state is in its vision window.
heuristic_route_sticky(q) ==
    IF should_use_vision_model(q) \/
       \E c \in ConvIds : states[c] # NoObj /\ heap[states[c]].vision_sticky_count > 0
    THEN [branch |-> "vision", target_model |-> settings.hard_no_research_model,
          model_tier |-> "hard"]
    ELSE IF detect_heavy_context(q)
    THEN [branch |-> "heavy_context", target_model |-> settings.hard_no_research_model,
          model_tier |-> "hard"]
    ELSE IF q.title
    THEN [branch |-> "title", target_model |-> settings.simple_no_research_model,
          model_tier |-> "simple"]
    ELSE IF q.escalation
    THEN [branch |-> "escalation", target_model |-> settings.escalation_model,
          model_tier |-> "escalation"]
    ELSE IF q.research
    THEN [branch |-> "research", target_model |-> PerplexityResearch,
          model_tier |-> "research"]
    ELSE [branch |-> "classifier", target_model |-> NoModel, model_tier |-> "none"]

\* The if/elif chain of route_and_process: the target and the tier a heuristic
\* selects, or branch "classifier" when none applies.
heuristic_route(q) ==
    IF should_use_vision_model(q)
    THEN [branch |-> "vision", target_model |-> settings.hard_no_research_model,
          model_tier |-> "hard"]
    ELSE IF detect_heavy_context(q)
    THEN [branch |-> "heavy_context", target_model |-> settings.hard_no_research_model,
          model_tier |-> "hard"]
    ELSE IF q.title
    THEN [branch |-> "title", target_model |-> settings.simple_no_research_model,
          model_tier |-> "simple"]
    ELSE IF q.escalation
    THEN [branch |-> "escalation", target_model |-> settings.escalation_model,
          model_tier |-> "escalation"]
    ELSE IF q.research
    THEN [branch |-> "research", target_model |-> PerplexityResearch,
          model_tier |-> "research"]
    ELSE [branch |-> "classifier", target_model |-> NoModel, model_tier |-> "none"]

\* The else branch, once classify_message has returned cat.
\* model_mappings.get(category, settings.fallback_model)
classified_route(q, cat) ==
    [target_model |-> IF cat \in DOMAIN get_model_mappings
                      THEN get_model_mappings[cat]
                      ELSE settings.fallback_model,
     model_tier |-> determine_model_tier(cat, should_use_vision_model(q),
                                         detect_heavy_context(q))]

\* HTTPException(status_code, detail); `cause` is the str(e) the detail embeds.
NoException == [status_code |-> 0, detail |-> "", cause |-> ""]
HTTPException(status_code, detail, cause) ==
    [status_code |-> status_code, detail |-> detail, cause |-> cause]

\* The fallback step without `target_model = settings.fallback_model`.
resolve_fallback_keeps_target(target, o1, o2) ==
    IF o1 = NoClient
    THEN [looked |-> <<[name |-> target, got |-> o1],
                       [name |-> settings.fallback_model, got |-> o2]>>,
          client |-> o2,
          target_model |-> target,
          raised |-> IF o2 = NoClient
                     THEN HTTPException(500, "No valid LLM client available", "")
                     ELSE NoException]
    ELSE [looked |-> <<[name |-> target, got |-> o1]>>,
          client |-> o1, target_model |-> target, raised |-> NoException]

\* Lines 192-221: the registry look-ups between the selection and the call.
\* o1, o2 and o3 are what the registry returns for the target, for the fallback
\* model and for the escalation model, should the router ask.
\* The result: the look-ups made, the client and target held at the end, and
\* the exception raised, if any.
resolve_fallback(target, o1, o2) ==
    IF o1 = NoClient
    THEN [looked |-> <<[name |-> target, got |-> o1],
                       [name |-> settings.fallback_model, got |-> o2]>>,
          client |-> o2,
          target_model |-> IF o2 = NoClient THEN target ELSE settings.fallback_model,
          raised |-> IF o2 = NoClient
                     THEN HTTPException(500, "No valid LLM client available", "")
                     ELSE NoException]
    ELSE [looked |-> <<[name |-> target, got |-> o1]>>,
          client |-> o1, target_model |-> target, raised |-> NoException]

\* The vision step without its override: the client of the fallback step is kept.
resolve_vision_skipped(res, needs_vision, o3) ==
    res

\* The vision step without `target_model = settings.escalation_model`: the
\* escalation model's client is called under the name held before.
resolve_vision_keeps_target(res, needs_vision, o3) ==
    IF res.raised = NoException /\ needs_vision /\ res.client # "gemini"
    THEN [looked |-> Append(res.looked, [name |-> settings.escalation_model, got |-> o3]),
          client |-> o3,
          target_model |-> res.target_model,
          raised |-> IF o3 = "gemini" THEN NoException
                     ELSE HTTPException(500, "Cannot find Gemini model for vision task!", "")]
    ELSE res

resolve_vision(res, needs_vision, o3) ==
    IF res.raised = NoException /\ needs_vision /\ res.client # "gemini"
    THEN [looked |-> Append(res.looked, [name |-> settings.escalation_model, got |-> o3]),
          client |-> o3,
          target_model |-> IF o3 = "gemini" THEN settings.escalation_model
                           ELSE res.target_model,
          raised |-> IF o3 = "gemini" THEN NoException
                     ELSE HTTPException(500, "Cannot find Gemini model for vision task!", "")]
    ELSE res

resolve_client(target, needs_vision, o1, o2, o3) ==
    resolve_vision(resolve_fallback(target, o1, o2), needs_vision, o3)

\* What the awaited client.generate_response of route_and_process does: it
\* raises `error`, or returns a reply of some shape.
BackendErrors == {"timeout", "rate limit"}
ReplyShapes == {"choices", "dict_choices", "dict_message", "image_batch",
                "error_dict", "malformed"}
BackendResults ==
    [raises : {TRUE}, error : BackendErrors, shape : {"none"}] \cup
    [raises : {FALSE}, error : {""}, shape : ReplyShapes]
NoResult == [raises |-> FALSE, error |-> "", shape |-> "none"]

\* _format_openai_response raises on a reply it cannot read (choices without a
\* message, content that is no text).
FormatError == "format error"

\* The except clause raising a detail without str(e).
generate_outcome_bare(result) ==
    IF result.raises \/ result.shape = "malformed"
    THEN HTTPException(500, "Failed to generate response", "")
    ELSE NoException

\* The try block around generate_response and _format_openai_response.
generate_outcome(result) ==
    IF result.raises
    THEN HTTPException(500, "Failed to generate response", result.error)
    ELSE IF result.shape = "malformed"
    THEN HTTPException(500, "Failed to generate response", FormatError)
    ELSE NoException

\* The endpoint returns a dict either way: the framework sends it with status 200.
NoResponse == [kind |-> "none", http_status |-> 0, type |-> "", code |-> "",
               model |-> NoModel, message |-> NoException, choices |-> <<>>]

\* _format_openai_response: the reply route_and_process returns.
\* An error-shaped reply is returned as it is (kind "backend_error": the
\* router adds no model and no choices to it); every other reply is rebuilt
\* with one choices entry.
format_openai_response(shape, model_name) ==
    IF shape = "error_dict"
    THEN [kind |-> "backend_error", http_status |-> 200, type |-> "", code |-> "",
          model |-> NoModel, message |-> NoException, choices |-> <<>>]
    ELSE [kind |-> "chat.completion", http_status |-> 200, type |-> "", code |-> "",
          model |-> model_name, message |-> NoException,
          choices |-> <<[role |-> "assistant", finish_reason |-> "stop"]>>]

\* The except clause of smart_route_chat_completions: every exception, the
\* HTTPException of the router included, becomes one error body.
error_response(e) ==
    [kind |-> "error", http_status |-> 200, type |-> "server_error",
     code |-> "smart_router_fail", model |-> NoModel, message |-> e,
     choices |-> <<>>]

\* settings.reload_if_changed(): the values of the file's version replace
\* those `settings` holds, in place, when the file has changed.
reload_if_changed(file, held) == IF file # held THEN file ELSE held

\* --- the steps of one request ---------------------------------------------

\* smart_route_chat_completions receives a request and calls route_and_process.
Receive(r, q) ==
    /\ pc[r] = "idle"
    /\ pc' = [pc EXCEPT ![r] = "routing"]
    /\ request' = [request EXCEPT ![r] = q]
    /\ target_model' = [target_model EXCEPT ![r] = NoModel]
    /\ model_tier' = [model_tier EXCEPT ![r] = "none"]
    /\ client' = [client EXCEPT ![r] = NoClient]
    /\ category' = [category EXCEPT ![r] = "none"]
    /\ reply' = [reply EXCEPT ![r] = NoReply]
    /\ backend' = [backend EXCEPT ![r] = NoResult]
    /\ raised' = [raised EXCEPT ![r] = NoException]
    /\ response' = [response EXCEPT ![r] = NoResponse]
    /\ classifier_calls' = [classifier_calls EXCEPT ![r] = 0]
    /\ resolutions' = [resolutions EXCEPT ![r] = <<>>]
    /\ generated' = [generated EXCEPT ![r] = <<>>]
    \* main.py:72
    /\ loaded' = reload_if_changed(config_file, loaded)
    /\ UNCHANGED <<config_file, config_read>>
    /\ UNCHANGED <<storeVars, rmwVars, callVars, histVars>>

\* route_and_process up to its first await or to the end of the selection:
\* the empty-request check, the heuristics, and, in the else branch,
\* classify_message up to its await (the look-up of the classifier model, o).
Route(r, o) ==
    /\ pc[r] = "routing"
    /\ LET q == request[r]
           h == heuristic_route(q)
       IN  IF Len(q.images) = 0
           THEN /\ raised' = [raised EXCEPT ![r] =
                                 HTTPException(400, "No messages provided.", "")]
                /\ pc' = [pc EXCEPT ![r] = "raised"]
                /\ UNCHANGED <<target_model, model_tier, category, classifier_calls>>
           ELSE IF h.branch # "classifier"
           THEN /\ target_model' = [target_model EXCEPT ![r] = h.target_model]
                /\ model_tier' = [model_tier EXCEPT ![r] = h.model_tier]
                /\ pc' = [pc EXCEPT ![r] = "selected"]
                /\ UNCHANGED <<raised, category, classifier_calls>>
           ELSE IF o = NoClient
           THEN /\ category' = [category EXCEPT ![r] = DefaultLabel]
                /\ pc' = [pc EXCEPT ![r] = "classified"]
                /\ UNCHANGED <<raised, target_model, model_tier, classifier_calls>>
           ELSE /\ classifier_calls' = [classifier_calls EXCEPT ![r] = @ + 1]
                /\ pc' = [pc EXCEPT ![r] = "classifying"]
                /\ UNCHANGED <<raised, target_model, model_tier, category>>
    /\ UNCHANGED <<request, client, reply, backend, response, resolutions, generated>>
    \* router.py:128, then the reads of the heuristics and of classify_message
    /\ loaded' = reload_if_changed(config_file, loaded)
    /\ config_read' = [config_read EXCEPT ![r] =
                          IF Len(request[r].images) = 0 THEN @ ELSE @ \cup {loaded'}]
    /\ UNCHANGED config_file
    /\ UNCHANGED <<storeVars, rmwVars, callVars, histVars>>

\* The classifier's generate_response completes and classify_message returns.
ClassifierReturns(r, rep) ==
    /\ pc[r] = "classifying"
    /\ reply' = [reply EXCEPT ![r] = rep]
    /\ IF classify_outcome(rep) = "raises"
       THEN /\ raised' = [raised EXCEPT ![r] =
                             HTTPException(0, "classify_message", rep.kind)]
            /\ pc' = [pc EXCEPT ![r] = "raised"]
            /\ UNCHANGED category
       ELSE /\ category' = [category EXCEPT ![r] = classify_outcome(rep)]
            /\ pc' = [pc EXCEPT ![r] = "classified"]
            /\ UNCHANGED raised
    /\ UNCHANGED <<request, target_model, model_tier, client, backend, response,
                   classifier_calls, resolutions, generated>>
    /\ UNCHANGED <<storeVars, rmwVars, callVars, histVars, confVars>>

\* The else branch maps the label classify_message returned.
Select(r) ==
    /\ pc[r] = "classified"
    /\ LET c == classified_route(request[r], category[r])
       IN  /\ target_model' = [target_model EXCEPT ![r] = c.target_model]
           /\ model_tier' = [model_tier EXCEPT ![r] = c.model_tier]
    /\ reply' = [reply EXCEPT ![r] = NoReply]
    /\ pc' = [pc EXCEPT ![r] = "selected"]
    /\ UNCHANGED <<request, client, category, backend, raised, response,
                   classifier_calls, resolutions, generated>>
    \* _get_model_mappings and settings.fallback_model
    /\ config_read' = [config_read EXCEPT ![r] = @ \cup {loaded}]
    /\ UNCHANGED <<config_file, loaded>>
    /\ UNCHANGED <<storeVars, rmwVars, callVars, histVars>>

\* Lines 192-249: the look-ups, then the call of generate_response, which
\* suspends the request.
Resolve(r, o1, o2, o3) ==
    /\ pc[r] = "selected"
    /\ LET res == resolve_client(target_model[r],
                                 should_use_vision_model(request[r]), o1, o2, o3)
       IN  /\ resolutions' = [resolutions EXCEPT ![r] = res.looked]
           /\ client' = [client EXCEPT ![r] = res.client]
           /\ target_model' = [target_model EXCEPT ![r] = res.target_model]
           /\ raised' = [raised EXCEPT ![r] = res.raised]
           /\ IF res.raised = NoException
              THEN /\ generated' = [generated EXCEPT ![r] =
                          Append(@, [provider |-> res.client,
                                     model |-> res.target_model,
                                     looked |-> Len(res.looked)])]
                   /\ pc' = [pc EXCEPT ![r] = "calling"]
              ELSE /\ pc' = [pc EXCEPT ![r] = "raised"]
                   /\ UNCHANGED generated
    /\ UNCHANGED <<request, model_tier, category, reply, backend, response,
                   classifier_calls>>
    \* settings.fallback_model after a miss, settings.escalation_model in the
    \* vision override
    /\ config_read' = [config_read EXCEPT ![r] =
                          IF Len(resolutions'[r]) > 1 THEN @ \cup {loaded} ELSE @]
    /\ UNCHANGED <<config_file, loaded>>
    /\ UNCHANGED <<storeVars, rmwVars, callVars, histVars>>

\* generate_response completes: route_and_process returns the formatted reply
\* or raises.
GenerateReturns(r, result) ==
    /\ pc[r] = "calling"
    /\ backend' = [backend EXCEPT ![r] = result]
    /\ raised' = [raised EXCEPT ![r] = generate_outcome(result)]
    /\ IF generate_outcome(result) = NoException
       THEN /\ response' = [response EXCEPT ![r] =
                               format_openai_response(result.shape, target_model[r])]
            /\ pc' = [pc EXCEPT ![r] = "returned"]
       ELSE /\ pc' = [pc EXCEPT ![r] = "raised"]
            /\ UNCHANGED response
    /\ UNCHANGED <<request, target_model, model_tier, client, category, reply,
                   classifier_calls, resolutions, generated>>
    /\ UNCHANGED <<storeVars, rmwVars, callVars, histVars, confVars>>

\* smart_route_chat_completions answers: the router's reply, or the error body
\* of its except clause.
Respond(r) ==
    /\ pc[r] \in {"returned", "raised"}
    /\ response' = [response EXCEPT ![r] =
                       IF pc[r] = "raised" THEN error_response(raised[r]) ELSE @]
    /\ pc' = [pc EXCEPT ![r] = "done"]
    /\ UNCHANGED <<request, target_model, model_tier, client, category, reply,
                   backend, raised, classifier_calls, resolutions, generated>>
    /\ UNCHANGED <<storeVars, rmwVars, callVars, histVars, confVars>>

\* The endpoint's coroutine ends: its locals are gone, the next request of this
\* connection starts afresh.
Return(r) ==
    /\ pc[r] = "done"
    /\ pc' = [pc EXCEPT ![r] = "idle"]
    /\ request' = [request EXCEPT ![r] = NoRequest]
    /\ target_model' = [target_model EXCEPT ![r] = NoModel]
    /\ model_tier' = [model_tier EXCEPT ![r] = "none"]
    /\ client' = [client EXCEPT ![r] = NoClient]
    /\ category' = [category EXCEPT ![r] = "none"]
    /\ reply' = [reply EXCEPT ![r] = NoReply]
    /\ backend' = [backend EXCEPT ![r] = NoResult]
    /\ raised' = [raised EXCEPT ![r] = NoException]
    /\ response' = [response EXCEPT ![r] = NoResponse]
    /\ classifier_calls' = [classifier_calls EXCEPT ![r] = 0]
    /\ resolutions' = [resolutions EXCEPT ![r] = <<>>]
    /\ generated' = [generated EXCEPT ![r] = <<>>]
    /\ config_read' = [config_read EXCEPT ![r] = {}]
    /\ UNCHANGED <<config_file, loaded>>
    /\ UNCHANGED <<storeVars, rmwVars, callVars, histVars>>

RouterInit ==
    /\ pc = [r \in Reqs |-> "idle"]
    /\ request = [r \in Reqs |-> NoRequest]
    /\ target_model = [r \in Reqs |-> NoModel]
    /\ model_tier = [r \in Reqs |-> "none"]
    /\ client = [r \in Reqs |-> NoClient]
    /\ category = [r \in Reqs |-> "none"]
    /\ reply = [r \in Reqs |-> NoReply]
    /\ backend = [r \in Reqs |-> NoResult]
    /\ raised = [r \in Reqs |-> NoException]
    /\ response = [r \in Reqs |-> NoResponse]
    /\ classifier_calls = [r \in Reqs |-> 0]
    /\ resolutions = [r \in Reqs |-> <<>>]
    /\ generated = [r \in Reqs |-> <<>>]

(***************************************************************************)
(* The store driven by its callers                                         *)
(***************************************************************************)
StoreInit ==
    /\ states = [c \in ConvIds |-> NoObj]
    /\ heap = [o \in Oids |-> FreeObj]
    /\ last_cleanup = 0
    /\ now = 0
    /\ handle = [t \in Tasks |-> NoObj]

\* update_state_after_routing's arguments, as a caller passes them
UpdateArgs(models, tiers) ==
    [selected_model : models, tier : tiers, had_vision : BOOLEAN,
     had_heavy_context : BOOLEAN]
NoArgs == [selected_model |-> NoModel, tier |-> "none", had_vision |-> FALSE,
           had_heavy_context |-> FALSE]
NoMessages == [cid |-> "none", marker |-> FALSE, kw |-> {}]
NoBase == [present |-> FALSE, s |-> FreeObj]

RmwInit ==
    /\ rmw = [t \in Tasks |-> [phase |-> "idle", m |-> NoMessages, args |-> NoArgs]]
    /\ base = NoBase

\* No function is being called.
NoCall == [fn |-> "none"]
NoReturn == [fn |-> "none"]
CallInit ==
    /\ call = NoCall
    /\ ret = NoReturn

\* No call on the store has been recorded.
NoLast == [fn |-> "none"]
NoTurns == [window_vision |-> -1, window_heavy |-> -1,
            quiet_vision |-> 0, quiet_heavy |-> 0]
HistInit ==
    /\ last = NoLast
    /\ turns = NoTurns

\* The configuration loaded when the module is imported.
ConfInit ==
    /\ config_file = 1
    /\ loaded = 1
    /\ config_read = [r \in Reqs |-> {}]

Init == StoreInit /\ RouterInit /\ RmwInit /\ CallInit /\ HistInit /\ ConfInit

\* The service: requests arrive at the endpoint and are routed.
Next ==
    \/ \E r \in Reqs, q \in ChatRequests : Receive(r, q)
    \/ \E r \in Reqs, o \in Resolutions : Route(r, o)
    \/ \E r \in Reqs, rep \in ClassifierReplies : ClassifierReturns(r, rep)
    \/ \E r \in Reqs : Select(r)
    \/ \E r \in Reqs, o1 \in Resolutions :
          \* the fallback model is looked up only after a miss
          \E o2 \in IF o1 = NoClient THEN Resolutions ELSE {NoClient} :
              \E o3 \in Resolutions : Resolve(r, o1, o2, o3)
    \/ \E r \in Reqs, result \in BackendResults : GenerateReturns(r, result)
    \/ \E r \in Reqs : Respond(r)
    \/ \E r \in Reqs : Return(r)

Spec == Init /\ [][Next]_vars

\* The models and tiers the callers of the store pass to it.
SelectedModels == {settings.simple_no_research_model, settings.hard_no_research_model}

\* The store under any interleaving of its callers' get_or_create_state and
\* update_state_after_routing calls on one conversation, within the hour of
\* the store's construction (no eviction pass is due).
StoreNext ==
    \/ \E t \in Tasks, m \in MessageLists({"c1"}, SUBSET Keywords) :
          get_or_create_state(t, m) /\ UNCHANGED <<routerVars, rmwVars, callVars, histVars, confVars>>
    \/ \E t \in Tasks, sm \in SelectedModels, tier \in Tiers,
          hv \in BOOLEAN, hh \in BOOLEAN :
          UpdateState(t, sm, tier, hv, hh) /\ UNCHANGED <<routerVars, rmwVars, callVars, histVars, confVars>>

SpecStore == Init /\ [][StoreNext]_vars

\* Every logical model the router can select.
RoutedModels ==
    {settings.simple_no_research_model, settings.simple_research_model,
     settings.hard_no_research_model, settings.hard_research_model,
     settings.escalation_model, settings.fallback_model, PerplexityResearch}

\* One caller creates a conversation's state and then only updates it.
UpdatesNext ==
    \/ \E m \in MessageLists({"c1"}, SUBSET Keywords) :
          /\ handle[1] = NoObj
          /\ get_or_create_state(1, m)
          /\ UNCHANGED <<routerVars, rmwVars, callVars, histVars, confVars>>
    \/ \E a \in UpdateArgs(RoutedModels, Tiers) :
          /\ UpdateState(1, a.selected_model, a.tier, a.had_vision, a.had_heavy_context)
          /\ UNCHANGED <<routerVars, rmwVars, callVars, histVars, confVars>>

SpecUpdates == Init /\ [][UpdatesNext]_vars

(***************************************************************************)
(* Two callers, each reading conversation c1's state with                  *)
(* get_or_create_state and, after its suspension, writing it with          *)
(* update_state_after_routing. The store holds no lock: the calls of the   *)
(* two interleave as the event loop schedules them.                        *)
(***************************************************************************)
Snapshot ==
    IF states["c1"] = NoObj THEN NoBase
    ELSE [present |-> TRUE, s |-> heap[states["c1"]]]

RmwGet(t, m) ==
    /\ rmw[t].phase = "idle"
    /\ get_or_create_state(t, m)
    /\ rmw' = [rmw EXCEPT ![t] = [phase |-> "got", m |-> m, args |-> NoArgs]]
    /\ base' = IF \A u \in Tasks : rmw[u].phase = "idle" THEN Snapshot ELSE base
    /\ UNCHANGED <<routerVars, callVars, histVars, confVars>>

RmwUpdate(t, a) ==
    /\ rmw[t].phase = "got"
    /\ UpdateState(t, a.selected_model, a.tier, a.had_vision, a.had_heavy_context)
    /\ rmw' = [rmw EXCEPT ![t].phase = "done", ![t].args = a]
    /\ UNCHANGED <<routerVars, base, callVars, histVars, confVars>>

\* Both have finished: the next pair begins from the state they left.
RmwEnd ==
    /\ \A t \in Tasks : rmw[t].phase = "done"
    /\ rmw' = [t \in Tasks |-> [phase |-> "idle", m |-> NoMessages, args |-> NoArgs]]
    /\ base' = NoBase
    /\ UNCHANGED <<routerVars, storeVars, callVars, histVars, confVars>>

RmwNext ==
    \/ \E t \in Tasks, m \in MessageLists({"c1"}, {{}}) : RmwGet(t, m)
    \/ \E t \in Tasks,
          a \in UpdateArgs({settings.hard_no_research_model}, {"simple", "hard"}) :
          RmwUpdate(t, a)
    \/ RmwEnd

SpecRMW == Init /\ [][RmwNext]_vars

\* One caller's read-modify-write run alone on the state b.
RunAlone(b, m, a, t) ==
    LET got == IF b.present
               THEN get_or_create_hit(b.s, m, t)
               ELSE ConversationState(m.cid, m.kw, t)
    IN  [present |-> TRUE,
         s |-> update_state_after_routing(got, a.selected_model, a.tier,
                   a.had_vision, a.had_heavy_context, t)]

OneAfterTheOther(first, second) ==
    RunAlone(RunAlone(base, rmw[first].m, rmw[first].args, now),
             rmw[second].m, rmw[second].args, now)

(***************************************************************************)
(* The claims                                                              *)
(***************************************************************************)
needs_vision(r) == should_use_vision_model(request[r])

\* The index in resolutions[r] of the look-up that decided the client before
\* the vision check: the target's, or the fallback's after a miss.
Decided(r) == IF resolutions[r][1].got = NoClient THEN 2 ELSE 1

\* C1: for a request whose vision need is true, generate_response is only ever
\* invoked on a client of provider gemini (and the classifier is not called);
\* when the client held after the fallback step is of another provider, the
\* next look-up is of the escalation model, and when that does not yield a
\* gemini client the request ends in a status 500 error with no generate call.
C1_VisionOnlyOnGemini ==
    \A r \in Reqs :
        needs_vision(r) =>
            /\ \A i \in DOMAIN generated[r] : generated[r][i].provider = "gemini"
            /\ classifier_calls[r] = 0
            /\ resolutions[r] # <<>> /\ raised[r].detail # "No valid LLM client available" =>
                 LET L == resolutions[r]
                     k == Decided(r)
                 IN  IF L[k].got = "gemini"
                     THEN Len(L) = k /\ generated[r] # <<>>
                     ELSE /\ Len(L) = k + 1
                          /\ L[k + 1].name = settings.escalation_model
                          /\ L[k + 1].got = "gemini" =>
                               /\ generated[r] # <<>>
                               /\ generated[r][1].model = settings.escalation_model
                          /\ L[k + 1].got # "gemini" =>
                               /\ generated[r] = <<>>
                               /\ pc[r] \in {"raised", "done"}
                               /\ raised[r].status_code = 500

\* C1's case: a vision request whose first client was not gemini's, forced to
\* the escalation model and called there.
C1_Witness ==
    \E r \in Reqs :
        /\ needs_vision(r)
        /\ pc[r] = "calling"
        /\ resolutions[r][Decided(r)].got \notin {"gemini", NoClient}
        /\ resolutions[r][Len(resolutions[r])].name = settings.escalation_model
        /\ generated[r][1].provider = "gemini"

StateFlagsClear(s) ==
    /\ s.vision_sticky_count >= 0
    /\ s.heavy_context_sticky_count >= 0
    /\ s.vision_sticky_count = 0 => ~s.has_vision_content
    /\ s.heavy_context_sticky_count = 0 => ~s.heavy_context_active

\* C2: from a freshly created ConversationState, after any sequence of
\* update_state_after_routing calls, both sticky counters are >= 0 and each
\* flag is false whenever its counter is 0.
C2_UpdatesKeepFlagsClear ==
    \A t \in Tasks : handle[t] # NoObj => StateFlagsClear(heap[handle[t]])

\* C2's case: a state whose vision window has run two of its three turns while
\* its heavy-context window is shut.
C2_Witness ==
    \E t \in Tasks :
        /\ handle[t] # NoObj
        /\ heap[handle[t]].vision_sticky_count = 1
        /\ heap[handle[t]].has_vision_content
        /\ heap[handle[t]].heavy_context_sticky_count = 0
        /\ heap[handle[t]].message_count_since_upgrade > 0

\* C3: in every reachable state of the store, under any interleaving of
\* get_or_create_state and update_state_after_routing, a stored state whose
\* vision_sticky_count is 0 has has_vision_content false and one whose
\* heavy_context_sticky_count is 0 has heavy_context_active false.
C3_StoreFlagsClearAtZero ==
    \A c \in ConvIds :
        states[c] # NoObj =>
            /\ heap[states[c]].vision_sticky_count = 0 =>
                 ~heap[states[c]].has_vision_content
            /\ heap[states[c]].heavy_context_sticky_count = 0 =>
                 ~heap[states[c]].heavy_context_active

\* C4: a request that returns a normalized reply has, before returning, got its
\* conversation's state from the store and applied update_state_after_routing
\* to it with the selected model and the resolved tier: the store holds a
\* state whose last_model_used and tier are the request's.
C4_ReplyLeavesRoutingMemory ==
    \A r \in Reqs :
        pc[r] \in {"returned", "done"} /\ response[r].kind = "chat.completion" =>
            \E c \in ConvIds :
                /\ states[c] # NoObj
                /\ heap[states[c]].last_model_used = target_model[r]
                /\ heap[states[c]].active_model_tier = model_tier[r]

\* C5: when two callers have each read and then updated the state of one
\* conversation, the state left is the one that results from running the two
\* read-modify-writes one after the other, in one of the two orders.
C5_ReadModifyWriteSerial ==
    (\A t \in Tasks : rmw[t].phase = "done") =>
        Snapshot \in {OneAfterTheOther(1, 2), OneAfterTheOther(2, 1)}

\* C6: the target and tier selected are those of the first condition that
\* holds, in the order vision need, heavy-context need, title intent,
\* escalation intent, research intent, classifier label.
C6_FirstMatchPriority ==
    \A r \in Reqs :
        pc[r] = "selected" =>
            LET q == request[r] IN
            IF should_use_vision_model(q) \/ detect_heavy_context(q)
            THEN /\ target_model[r] = settings.hard_no_research_model
                 /\ model_tier[r] = "hard"
            ELSE IF q.title
            THEN /\ target_model[r] = settings.simple_no_research_model
                 /\ model_tier[r] = "simple"
            ELSE IF q.escalation
            THEN /\ target_model[r] = settings.escalation_model
                 /\ model_tier[r] = "escalation"
            ELSE IF q.research
            THEN /\ target_model[r] = PerplexityResearch
                 /\ model_tier[r] = "research"
            ELSE /\ category[r] \in Labels
                 /\ target_model[r] = get_model_mappings[category[r]]

\* C6's case: title and research intent both hold, and title, the earlier
\* condition, decides.
C6_Witness ==
    \E r \in Reqs :
        /\ pc[r] = "selected"
        /\ request[r].title /\ request[r].research
        /\ ~should_use_vision_model(request[r])
        /\ ~detect_heavy_context(request[r])
        /\ target_model[r] = settings.simple_no_research_model

FallbackLookups(r) ==
    {i \in DOMAIN resolutions[r] : resolutions[r][i].name = settings.fallback_model}

\* What C7 says of a miss and of a fallback that misses too.
C7_MissAndFallback(r) ==
    LET L == resolutions[r] IN
    /\ Len(L) >= 2
    /\ L[2].name = settings.fallback_model
    /\ Cardinality(FallbackLookups(r)) = 1
    /\ L[2].got = NoClient =>
         /\ Len(L) = 2
         /\ generated[r] = <<>>
         /\ pc[r] \in {"raised", "done"}
         /\ raised[r].status_code = 500

\* C7 as stated: after a miss the fallback model is looked up exactly once; if
\* it misses too the request fails with status 500, without a generate call or
\* a further look-up; if it resolves, the fallback model is the model called.
C7_FallbackIsCalled ==
    \A r \in Reqs :
        resolutions[r] # <<>> /\ resolutions[r][1].got = NoClient =>
            /\ C7_MissAndFallback(r)
            /\ resolutions[r][2].got # NoClient =>
                 /\ generated[r] # <<>>
                 /\ generated[r][1].model = settings.fallback_model

\* C7, amended: ... if it resolves, the fallback model is the model called,
\* unless the request needs vision and the fallback's client is not gemini's:
\* then the escalation model is looked up and is the only model that may be
\* called.
C7_FallbackIsCalledUnlessVision ==
    \A r \in Reqs :
        resolutions[r] # <<>> /\ resolutions[r][1].got = NoClient =>
            /\ C7_MissAndFallback(r)
            /\ resolutions[r][2].got # NoClient =>
                 IF needs_vision(r) /\ resolutions[r][2].got # "gemini"
                 THEN /\ Len(resolutions[r]) = 3
                      /\ resolutions[r][3].name = settings.escalation_model
                      /\ generated[r] # <<>> =>
                           generated[r][1].model = settings.escalation_model
                 ELSE /\ Len(resolutions[r]) = 2
                      /\ generated[r] # <<>>
                      /\ generated[r][1].model = settings.fallback_model
                      /\ generated[r][1].provider = resolutions[r][2].got
                      /\ target_model[r] = settings.fallback_model

\* C7's case: the target missed, the fallback resolved and is being called.
C7_Witness ==
    \E r \in Reqs :
        /\ pc[r] = "calling"
        /\ Len(resolutions[r]) = 2
        /\ resolutions[r][1].got = NoClient
        /\ generated[r][1].model = settings.fallback_model

\* C8: the target's generate_response is invoked at most once per request; if
\* it raises, the request ends in a status 500 error whose detail carries the
\* underlying message, and nothing is looked up or called after the call.
C8_OneCallNoRetry ==
    \A r \in Reqs :
        /\ Len(generated[r]) <= 1
        /\ backend[r].raises =>
             /\ pc[r] \in {"raised", "done"}
             /\ raised[r].status_code = 500
             /\ raised[r].cause = backend[r].error
             /\ Len(generated[r]) = 1
             /\ generated[r][1].looked = Len(resolutions[r])
             /\ response[r].kind \in {"none", "error"}
             /\ response[r].kind = "error" => response[r].message.cause = backend[r].error

\* C8's case: the backend call has raised.
C8_Witness ==
    \E r \in Reqs : backend[r].raises /\ pc[r] = "raised"

\* The replies from which classify_message has no label to take.
FailurePath(r) ==
    \/ classifier_calls[r] = 0
    \/ reply[r].kind \in {"raises", "no_choices", "no_content"}
    \/ reply[r].text.form \in {"bad_json", "no_key", "scalar"}
    \/ reply[r].text.labels = {}

Untouched(r) ==
    /\ classifier_calls[r] = 0
    /\ resolutions[r] = <<>>
    /\ generated[r] = <<>>
    /\ \A c \in ConvIds : states[c] = NoObj

\* C10: a request with no messages is rejected as a client error, before any
\* conversation-state mutation, classifier call, registry look-up or generate
\* call.
C10_EmptyRejectedAsClientError ==
    \A r \in Reqs :
        pc[r] = "done" /\ Len(request[r].images) = 0 =>
            /\ Untouched(r)
            /\ response[r].kind = "error"
            /\ \/ response[r].http_status \in 400..499
               \/ response[r].type = "client_error"

NoImages(q) == \A i \in 1..Len(q.images) : ~q.images[i]

(***************************************************************************)
(* Texts, as the string tests of the classifier read them.                 *)
(* A text is a sequence of tokens: a blank, a word, or a fragment that     *)
(* continues the word before it ("the" then "sis" spells "thesis"). No      *)
(* token is a prefix of another and none can be spelled with others, so    *)
(* startswith, `in` and == on the characters give what they give on the    *)
(* tokens.                                                                 *)
(***************************************************************************)
Blank == " "

\* The words w1 .. wn with one blank between each two.
Phrase(ws) ==
    [i \in 1..(2 * Len(ws) - 1) |->
        IF i % 2 = 1 THEN ws[(i + 1) \div 2] ELSE Blank]

\* str.lower() on one token
lower_token(a) ==
    CASE a = "Research" -> "research"
      [] a = "Escalate" -> "escalate"
      [] a = "ESCALATE" -> "escalate"
      [] a = "This" -> "this"
      [] a = "I" -> "i"
      [] a = "Rome" -> "rome"
      [] OTHER -> a

\* len() of one token; filler91 and filler92 are words of 91 and 92 letters.
token_len(a) ==
    CASE a \in {"I", "i"} -> 1
      [] a \in {"me", "of", "we"} -> 2
      [] a \in {"any", "new", "sis", "the"} -> 3
      [] a \in {"This", "this", "Rome", "rome"} -> 4
      [] a \in {"issue", "think"} -> 5
      [] a \in {"please", "should"} -> 6
      [] a = "history" -> 7
      [] a \in {"Research", "research", "Escalate", "ESCALATE", "escalate"} -> 8
      [] a = "filler91" -> 91
      [] a = "filler92" -> 92
      [] OTHER -> 1

lower(text) == [i \in DOMAIN text |-> lower_token(text[i])]

\* str.strip()
strip(text) ==
    LET inked == {i \in DOMAIN text : text[i] # Blank} IN
    IF inked = {} THEN <<>>
    ELSE SubSeq(text, CHOOSE i \in inked : \A j \in inked : i <= j,
                      CHOOSE i \in inked : \A j \in inked : i >= j)

RECURSIVE len(_)
len(text) ==
    IF text = <<>> THEN 0 ELSE token_len(Head(text)) + len(Tail(text))

startswith(text, prefix) ==
    Len(prefix) <= Len(text) /\ SubSeq(text, 1, Len(prefix)) = prefix

\* part in text
contains(text, part) ==
    \E i \in 0..(Len(text) - Len(part)) : SubSeq(text, i + 1, i + Len(part)) = part

\* str.split(): where the words begin, and the first word
word_starts(text) ==
    {i \in DOMAIN text : text[i] # Blank /\ (i = 1 \/ text[i - 1] = Blank)}

first_word(text) ==
    LET i == CHOOSE k \in word_starts(text) : \A j \in word_starts(text) : k <= j
        ends == {k \in i..Len(text) : k = Len(text) \/ text[k + 1] = Blank}
    IN  SubSeq(text, i, CHOOSE k \in ends : \A j \in ends : k <= j)

\* is_escalation_request with `in` read as substring containment.
is_escalation_request_contains(user_prompt) ==
    LET cleaned_prompt == lower(strip(user_prompt)) IN
    \E p \in {Phrase(<<"escalate">>), Phrase(<<"escalate", "this">>),
              Phrase(<<"escalate", "me">>)} : contains(cleaned_prompt, p)

\* cleaned_prompt in ["escalate", "escalate this", "escalate me"]
is_escalation_request(user_prompt) ==
    LET cleaned_prompt == lower(strip(user_prompt)) IN
    cleaned_prompt \in {Phrase(<<"escalate">>), Phrase(<<"escalate", "this">>),
                        Phrase(<<"escalate", "me">>)}

imperative_triggers ==
    {Phrase(<<"research", "this">>),
     Phrase(<<"research", "that">>),
     Phrase(<<"research", "it">>),
     Phrase(<<"research", "about">>),
     Phrase(<<"research", "the">>),
     Phrase(<<"research", "how">>),
     Phrase(<<"research", "what">>),
     Phrase(<<"research", "when">>),
     Phrase(<<"research", "where">>),
     Phrase(<<"research", "why">>),
     Phrase(<<"research", "whether">>),
     Phrase(<<"look", "this", "up">>),
     Phrase(<<"look", "that", "up">>),
     Phrase(<<"look", "it", "up">>),
     Phrase(<<"look", "up">>),
     Phrase(<<"search", "for", "this">>),
     Phrase(<<"search", "for", "that">>),
     Phrase(<<"search", "for", "the">>),
     Phrase(<<"find", "information", "about">>),
     Phrase(<<"find", "info", "about">>),
     Phrase(<<"find", "out", "about">>),
     Phrase(<<"investigate", "this">>),
     Phrase(<<"investigate", "that">>),
     Phrase(<<"investigate", "the">>),
     Phrase(<<"dig", "deeper", "into">>),
     Phrase(<<"get", "more", "info", "on">>),
     Phrase(<<"get", "information", "on">>)}

polite_triggers ==
    {Phrase(<<"can", "you", "research">>),
     Phrase(<<"could", "you", "research">>),
     Phrase(<<"would", "you", "research">>),
     Phrase(<<"please", "research">>),
     Phrase(<<"can", "you", "look", "up">>),
     Phrase(<<"could", "you", "look", "up">>),
     Phrase(<<"can", "you", "find">>),
     Phrase(<<"could", "you", "find">>),
     Phrase(<<"can", "you", "search">>),
     Phrase(<<"could", "you", "search">>),
     Phrase(<<"please", "look", "up">>),
     Phrase(<<"please", "find">>)}

question_triggers ==
    {Phrase(<<"what's", "the", "latest", "on">>),
     Phrase(<<"what", "is", "the", "latest", "on">>),
     Phrase(<<"what's", "the", "current">>),
     Phrase(<<"what", "is", "the", "current">>),
     Phrase(<<"what", "are", "the", "recent">>),
     Phrase(<<"what", "are", "recent">>),
     Phrase(<<"any", "recent">>),
     Phrase(<<"any", "latest">>),
     Phrase(<<"any", "new">>),
     Phrase(<<"current", "information", "about">>),
     Phrase(<<"latest", "news", "on">>),
     Phrase(<<"recent", "developments">>)}

\* len(cleaned_prompt) < 100
ShortQuestionLimit == 100
\* len(words) <= 10
ResearchWordLimit == 10

\* is_research_request without the `len(cleaned_prompt) < 100` gate.
is_research_request_ungated(user_prompt) ==
    LET cleaned_prompt == lower(strip(user_prompt)) IN
    \/ \E trigger \in imperative_triggers \cup polite_triggers :
          startswith(cleaned_prompt, trigger)
    \/ \E trigger \in question_triggers : contains(cleaned_prompt, trigger)
    \/ /\ Cardinality(word_starts(cleaned_prompt)) >= 2
       /\ first_word(cleaned_prompt) = <<"research">>
       /\ Cardinality(word_starts(cleaned_prompt)) <= ResearchWordLimit

is_research_request(user_prompt) ==
    LET cleaned_prompt == lower(strip(user_prompt)) IN
    \/ \E trigger \in imperative_triggers \cup polite_triggers :
          startswith(cleaned_prompt, trigger)
    \/ /\ len(cleaned_prompt) < ShortQuestionLimit
       /\ \E trigger \in question_triggers : contains(cleaned_prompt, trigger)
    \/ /\ Cardinality(word_starts(cleaned_prompt)) >= 2
       /\ first_word(cleaned_prompt) = <<"research">>
       /\ Cardinality(word_starts(cleaned_prompt)) <= ResearchWordLimit

(***************************************************************************)
(* The functions that read no state of the service, each called on inputs  *)
(* drawn from a bounded set.                                               *)
(***************************************************************************)
\* The distinct words explored as topic keywords.
MaxWords == 10
\* keywords[:10]
TopicKeywordCap == 10

\* The keyword sets _extract_topic_keywords can return: runs of the words
\* 1..MaxWords, at most TopicKeywordCap of them.
KeywordSets ==
    {{}} \cup {w \in {lo..hi : lo \in 1..MaxWords, hi \in 1..MaxWords} :
                  Cardinality(w) <= TopicKeywordCap}

\* _detect_topic_change(messages, current_state), by what it reads of them.
DriftCalls ==
    [fn : {"detect_topic_change"}, marker : BOOLEAN, current : KeywordSets,
     stored : KeywordSets]

CallDetectTopicChange ==
    /\ call.fn = "detect_topic_change"
    /\ ret = NoReturn
    /\ ret' = [fn |-> call.fn,
               value |-> detect_topic_change(
                   [cid |-> "c1", marker |-> call.marker, kw |-> call.current],
                   ConversationState("c1", call.stored, 0))]
    /\ UNCHANGED <<storeVars, routerVars, rmwVars, histVars, confVars, call>>

\* The token counts explored.
MaxTokens == 2

UsageFields == {"prompt_tokens", "completion_tokens", "total_tokens"}

\* A usage block: the fields it holds and their values (0 where it holds none).
Usages ==
    {u \in [has : SUBSET UsageFields, prompt_tokens : 0..MaxTokens,
            completion_tokens : 0..MaxTokens, total_tokens : 0..(2 * MaxTokens)] :
        \A f \in UsageFields \ u.has : u[f] = 0}

\* usage = {"prompt_tokens": 0, "completion_tokens": 0, "total_tokens": 0}
ZeroUsage ==
    [has |-> UsageFields, prompt_tokens |-> 0, completion_tokens |-> 0,
     total_tokens |-> 0]

\* A backend reply as _format_openai_response reads it: its shape, whether it
\* has a usage attribute or key, and that usage block. For a dict with a
\* message the block's prompt_tokens and completion_tokens stand for
\* prompt_eval_count and eval_count.
\*   other     an object that is no dict and has no choices, or a dict with
\*             neither choices nor message
LlmResponses ==
    [shape : {"choices", "dict_choices", "dict_message", "image_batch",
              "error_dict", "other"},
     has_usage : BOOLEAN, usage : Usages]

\* The usage block of the reply _format_openai_response builds.
format_usage(llm_response) ==
    LET u == llm_response.usage IN
    CASE llm_response.shape = "image_batch" ->
           [has |-> UsageFields, prompt_tokens |-> 0, completion_tokens |-> 10,
            total_tokens |-> 10]
      [] llm_response.shape = "choices" ->
           IF llm_response.has_usage
           THEN [has |-> UsageFields, prompt_tokens |-> u.prompt_tokens,
                 completion_tokens |-> u.completion_tokens,
                 total_tokens |-> u.total_tokens]
           ELSE ZeroUsage
      [] llm_response.shape = "dict_choices" ->
           IF llm_response.has_usage THEN u ELSE ZeroUsage
      [] llm_response.shape = "dict_message" ->
           [has |-> UsageFields, prompt_tokens |-> u.prompt_tokens,
            completion_tokens |-> u.completion_tokens,
            total_tokens |-> u.prompt_tokens + u.completion_tokens]
      [] OTHER -> ZeroUsage

FormatCalls == [fn : {"format_openai_response"}, llm_response : LlmResponses]

\* _format_openai_response(llm_response, model_name): the reply's kind and usage.
CallFormatResponse ==
    /\ call.fn = "format_openai_response"
    /\ ret = NoReturn
    /\ ret' = [fn |-> call.fn,
               kind |-> format_openai_response(call.llm_response.shape,
                                               settings.fallback_model).kind,
               usage |-> format_usage(call.llm_response)]
    /\ UNCHANGED <<storeVars, routerVars, rmwVars, histVars, confVars, call>>

\* A backend reply by what _format_openai_response tests of it: whether it is
\* a dict, the keys it has among those tested, whether its "object" is "list",
\* whether it has a non-empty `choices` attribute, and whether the content the
\* taken branch reads is there (choices[0].message.content, message.content).
ReplyKeys == {"data", "error", "choices", "message"}
ReplyForms ==
    [is_dict : {TRUE}, keys : SUBSET ReplyKeys, object_list : BOOLEAN,
     choices_attr : {FALSE}, readable : BOOLEAN] \cup
    [is_dict : {FALSE}, keys : {{}}, object_list : {FALSE},
     choices_attr : BOOLEAN, readable : BOOLEAN]

\* The branch of _format_openai_response a reply takes, in the order of its
\* tests; "malformed" when the branch's read raises.
reply_shape(llm_response) ==
    IF llm_response.is_dict /\ "data" \in llm_response.keys
                            /\ llm_response.object_list
    THEN "image_batch"
    ELSE IF llm_response.is_dict /\ "error" \in llm_response.keys
    THEN "error_dict"
    ELSE IF llm_response.choices_attr
    THEN IF llm_response.readable THEN "choices" ELSE "malformed"
    ELSE IF llm_response.is_dict /\ "choices" \in llm_response.keys
    THEN IF llm_response.readable THEN "dict_choices" ELSE "malformed"
    ELSE IF llm_response.is_dict /\ "message" \in llm_response.keys
    THEN IF llm_response.readable THEN "dict_message" ELSE "malformed"
    ELSE "other"

NormalizeCalls == [fn : {"_format_openai_response"}, llm_response : ReplyForms]

\* _format_openai_response(llm_response, model_name): what it returns, or that
\* it raises.
CallNormalize ==
    /\ call.fn = "_format_openai_response"
    /\ ret = NoReturn
    /\ ret' = IF reply_shape(call.llm_response) = "malformed"
              THEN [fn |-> call.fn, raises |-> TRUE, reply |-> NoResponse]
              ELSE [fn |-> call.fn, raises |-> FALSE,
                    reply |-> format_openai_response(reply_shape(call.llm_response),
                                                     settings.fallback_model)]
    /\ UNCHANGED <<storeVars, routerVars, rmwVars, histVars, confVars, call>>

\* --- the conversation fingerprint ------------------------------------------
\* A text as runs of one character: [ch |-> "a", n |-> 200] is "a" two hundred
\* times. Merged runs are a canonical form: two texts are the same string
\* exactly when their merged runs are equal.
MaxRuns == 2
FingerprintChars == 200
TextRuns ==
    {[ch |-> "a", n |-> FingerprintChars], [ch |-> "b", n |-> 1],
     [ch |-> "_", n |-> 1], [ch |-> "1", n |-> 1]}
RunTexts == UNION {[1..k -> TextRuns] : k \in 0..MaxRuns}

RECURSIVE merge_runs(_)
merge_runs(text) ==
    IF Len(text) <= 1 THEN text
    ELSE LET rest == merge_runs(Tail(text)) IN
         IF Head(text).ch = Head(rest).ch
         THEN <<[ch |-> Head(text).ch, n |-> Head(text).n + Head(rest).n]>> \o Tail(rest)
         ELSE <<Head(text)>> \o rest

\* text[:k]
RECURSIVE first_chars(_, _)
first_chars(text, k) ==
    IF text = <<>> \/ k = 0 THEN <<>>
    ELSE IF Head(text).n <= k
    THEN <<Head(text)>> \o first_chars(Tail(text), k - Head(text).n)
    ELSE <<[ch |-> Head(text).ch, n |-> k]>>

\* str(n)
RECURSIVE decimal(_)
decimal(n) ==
    IF n < 10 THEN <<[ch |-> ToString(n), n |-> 1]>>
    ELSE decimal(n \div 10) \o <<[ch |-> ToString(n % 10), n |-> 1]>>

\* A message list as _generate_conversation_id reads it: the extracted text
\* of each message; the messages after the first are not read.
FingerprintLists ==
    {<<>>} \cup
    UNION {{<<first>> \o [i \in 1..(k - 1) |-> <<>>] : first \in RunTexts} :
             k \in 1..MaxMessages}

\* The fingerprint without the message count.
generate_conversation_id_no_count(messages) ==
    IF messages = <<>> THEN <<"empty_conversation">>
    ELSE <<"md5", merge_runs(first_chars(messages[1], FingerprintChars) \o
                              <<[ch |-> "_", n |-> 1]>>)>>

\* _generate_conversation_id, the hash taken as injective: the fingerprint is
\* the signature that is hashed, or the literal of an empty list.
generate_conversation_id(messages) ==
    IF messages = <<>> THEN <<"empty_conversation">>
    ELSE <<"md5", merge_runs(first_chars(messages[1], FingerprintChars) \o
                              <<[ch |-> "_", n |-> 1]>> \o decimal(Len(messages)))>>

FingerprintCalls ==
    [fn : {"_generate_conversation_id"}, a : FingerprintLists, b : FingerprintLists]

\* The fingerprints of two message lists.
CallGenerateConversationId ==
    /\ call.fn = "_generate_conversation_id"
    /\ ret = NoReturn
    /\ ret' = [fn |-> call.fn, a |-> generate_conversation_id(call.a),
               b |-> generate_conversation_id(call.b)]
    /\ UNCHANGED <<storeVars, routerVars, rmwVars, histVars, confVars, call>>

\* The longest text explored token by token.
MaxAtoms == 4

TextsOver(tokens) == UNION {[1..n -> tokens] : n \in 0..MaxAtoms}

EscalationTokens ==
    {Blank, "escalate", "Escalate", "ESCALATE", "this", "This", "me", "please",
     "issue"}

\* "please escalate this issue"
PleaseEscalateThisIssue == Phrase(<<"please", "escalate", "this", "issue">>)

EscalationCalls ==
    [fn : {"is_escalation_request"},
     user_prompt : TextsOver(EscalationTokens) \cup {PleaseEscalateThisIssue}]

\* A one-message request without images whose text is user_prompt, as the
\* if/elif chain of route_and_process reads it. None of the tokens explored
\* spells a title pattern or an image keyword.
TextRequest(user_prompt) ==
    [images |-> <<FALSE>>, refs_image |-> FALSE,
     short |-> len(strip(user_prompt)) < 50, title |-> FALSE,
     escalation |-> is_escalation_request(user_prompt),
     research |-> is_research_request(user_prompt),
     tokens |-> token_usage_threshold]

\* classifier.is_escalation_request(user_prompt_text), and the branch of
\* route_and_process the text takes.
CallIsEscalationRequest ==
    /\ call.fn = "is_escalation_request"
    /\ ret = NoReturn
    /\ ret' = [fn |-> call.fn,
               value |-> is_escalation_request(call.user_prompt),
               branch |-> heuristic_route(TextRequest(call.user_prompt)).branch]
    /\ UNCHANGED <<storeVars, routerVars, rmwVars, histVars, confVars, call>>

ResearchTokens ==
    {Blank, "research", "Research", "the", "sis", "please", "any", "new", "rome",
     "filler91", "filler92"}

\* "research the history of Rome"
ResearchTheHistoryOfRome == Phrase(<<"research", "the", "history", "of", "Rome">>)
\* "I think we should research the history of Rome"
IThinkWeShouldResearch ==
    Phrase(<<"I", "think", "we", "should", "research", "the", "history", "of", "Rome">>)
\* "research" followed by n times " rome"
ResearchAndWords(n) == Phrase([i \in 1..(n + 1) |-> IF i = 1 THEN "research" ELSE "rome"])
\* "rome any new" followed by a word of 91 or of 92 letters: 104 and 105 characters
LongQuestion(filler) == Phrase(<<"rome", "any", "new", filler>>)
\* "any new" followed by a word of 91 or of 92 letters: 99 and 100 characters
EdgeQuestion(filler) == Phrase(<<"any", "new", filler>>)

ResearchCalls ==
    [fn : {"is_research_request"},
     user_prompt : TextsOver(ResearchTokens) \cup
        {ResearchTheHistoryOfRome, IThinkWeShouldResearch,
         ResearchAndWords(ResearchWordLimit - 1), ResearchAndWords(ResearchWordLimit),
         EdgeQuestion("filler91"), EdgeQuestion("filler92"),
         LongQuestion("filler91"), LongQuestion("filler92")}]

\* classifier.is_research_request(user_prompt_text)
CallIsResearchRequest ==
    /\ call.fn = "is_research_request"
    /\ ret = NoReturn
    /\ ret' = [fn |-> call.fn, value |-> is_research_request(call.user_prompt)]
    /\ UNCHANGED <<storeVars, routerVars, rmwVars, histVars, confVars, call>>

Calls ==
    DriftCalls \cup FormatCalls \cup EscalationCalls \cup ResearchCalls \cup
    NormalizeCalls \cup FingerprintCalls

CallsInit ==
    /\ StoreInit /\ RouterInit /\ RmwInit /\ HistInit /\ ConfInit
    /\ call \in Calls
    /\ ret = NoReturn

CallsNext ==
    \/ CallDetectTopicChange
    \/ CallFormatResponse
    \/ CallIsEscalationRequest
    \/ CallIsResearchRequest
    \/ CallNormalize
    \/ CallGenerateConversationId

SpecCalls == CallsInit /\ [][CallsNext]_vars

\* C13: on a hit without an explicit marker, drift is declared iff both
\* keyword sets are non-empty and 10 * overlap < 3 * union; 1 common word of 10
\* declares drift, 5 of 10 and 3 of 10 do not, an empty set never does.
C13_DriftBelowThirtyPercent ==
    ret.fn = "detect_topic_change" /\ ~call.marker =>
        LET overlap == Cardinality(call.current \cap call.stored)
            union == Cardinality(call.current \cup call.stored)
        IN  /\ overlap = 1 /\ union = 10 => ret.value
            /\ overlap = 5 /\ union = 10 => ~ret.value
            /\ overlap = 3 /\ union = 10 => ~ret.value
            /\ call.current = {} \/ call.stored = {} => ~ret.value
            /\ ret.value <=> /\ call.current # {}
                             /\ call.stored # {}
                             /\ 10 * overlap < 3 * union

\* C13's case: exactly 3 common words of 10, no drift declared.
C13_Witness ==
    /\ ret.fn = "detect_topic_change"
    /\ ~call.marker
    /\ Cardinality(call.current \cap call.stored) = 3
    /\ Cardinality(call.current \cup call.stored) = 10
    /\ ~ret.value

(***************************************************************************)
(* One caller of the store on conversation c1. `rmw[1]` keeps the message  *)
(* list of its last get_or_create_state call, and whether that call        *)
(* repeated the one before it with nothing in between; `base` keeps what   *)
(* the first call of such a pair returned.                                  *)
(***************************************************************************)
Returned(o, hp) == [present |-> TRUE, s |-> hp[o], ref |-> o]

TwiceGet(m) ==
    /\ get_or_create_state(1, m)
    /\ IF rmw[1].phase = "got" /\ rmw[1].m = m
       THEN /\ rmw' = [rmw EXCEPT ![1].phase = "again"]
            /\ UNCHANGED base
       ELSE /\ rmw' = [rmw EXCEPT ![1] = [phase |-> "got", m |-> m, args |-> NoArgs]]
            /\ base' = Returned(handle'[1], heap')
    /\ UNCHANGED <<routerVars, callVars, histVars, confVars>>

TwiceUpdate(a) ==
    /\ UpdateState(1, a.selected_model, a.tier, a.had_vision, a.had_heavy_context)
    /\ rmw' = [rmw EXCEPT ![1] = [phase |-> "idle", m |-> NoMessages, args |-> NoArgs]]
    /\ base' = NoBase
    /\ UNCHANGED <<routerVars, callVars, histVars, confVars>>

TwiceNext ==
    \/ \E m \in MessageLists({"c1"}, SUBSET Keywords) : TwiceGet(m)
    \/ \E a \in UpdateArgs({settings.hard_no_research_model}, {"simple", "hard"}) :
          TwiceUpdate(a)

SpecTwice == Init /\ [][TwiceNext]_vars

\* C14 as stated: get_or_create_state resolves the same message list to the
\* same state, and no call of it changes vision_sticky_count or
\* heavy_context_sticky_count.
C14_GetNeverChangesCounters ==
    [][rmw'[1].phase \in {"got", "again"} /\ states[rmw'[1].m.cid] # NoObj =>
          LET before == heap[states[rmw'[1].m.cid]]
              after == heap'[handle'[1]]
          IN  /\ handle'[1] = states[rmw'[1].m.cid]
              /\ after.vision_sticky_count = before.vision_sticky_count
              /\ after.heavy_context_sticky_count = before.heavy_context_sticky_count
      ]_vars

\* C14, amended: the second of two calls in immediate succession with the same
\* message list returns the state the first returned, filed under the same
\* fingerprint, with vision_sticky_count and heavy_context_sticky_count as the
\* first call left them (the first call, on a hit that detects a topic change,
\* sets both to 0).
C14_SecondGetChangesNothing ==
    rmw[1].phase = "again" =>
        /\ handle[1] = base.ref
        /\ states[rmw[1].m.cid] = base.ref
        /\ heap[handle[1]].conversation_id = base.s.conversation_id
        /\ heap[handle[1]].vision_sticky_count = base.s.vision_sticky_count
        /\ heap[handle[1]].heavy_context_sticky_count = base.s.heavy_context_sticky_count

\* C14's case: the pair of calls made on a state inside its vision window,
\* with a message list showing no topic change.
C14_Witness ==
    /\ rmw[1].phase = "again"
    /\ ~rmw[1].m.marker
    /\ heap[handle[1]].vision_sticky_count = VisionStickyTurns
    /\ heap[handle[1]].heavy_context_sticky_count = 1

\* C11: the classifier's generate_response is called at most once per request,
\* and only when none of vision need, heavy-context need, title intent,
\* escalation intent and research intent holds; a request with heavy-context
\* need and no image has the hard no-research model selected, without the
\* classifier having been asked.
C11_ClassifierIsLastResort ==
    \A r \in Reqs :
        LET q == request[r] IN
        /\ classifier_calls[r] <= 1
        /\ classifier_calls[r] = 1 =>
             /\ ~should_use_vision_model(q)
             /\ ~detect_heavy_context(q)
             /\ ~q.title /\ ~q.escalation /\ ~q.research
        /\ pc[r] = "selected" /\ detect_heavy_context(q) /\ NoImages(q) =>
             /\ target_model[r] = settings.hard_no_research_model
             /\ model_tier[r] = "hard"
             /\ classifier_calls[r] = 0
             /\ category[r] = "none"

\* C11's case: a long request without images, which the classifier would have
\* been free to label, selected for the hard no-research model.
C11_Witness ==
    \E r \in Reqs :
        /\ pc[r] = "selected"
        /\ detect_heavy_context(request[r])
        /\ NoImages(request[r])
        /\ ~request[r].title /\ ~request[r].escalation /\ ~request[r].research
        /\ target_model[r] = settings.hard_no_research_model

\* An earlier message holds an image; the last one is a short text without one.
ShortFollowUp(q) ==
    /\ Len(q.images) >= 2
    /\ ~q.images[Len(q.images)]
    /\ \E i \in 1..(Len(q.images) - 1) : q.images[i]
    /\ q.short

CannotFindGemini == "Cannot find Gemini model for vision task!"

\* C12 as stated: a request whose earlier message holds an image and whose last
\* message is a short text without one has vision need true, is only served by
\* the gemini provider, and does not fail the safety-override check.
C12_ShortFollowUpServedByVision ==
    \A r \in Reqs :
        ShortFollowUp(request[r]) =>
            /\ should_use_vision_model(request[r])
            /\ classifier_calls[r] = 0
            /\ \A i \in DOMAIN generated[r] : generated[r][i].provider = "gemini"
            /\ raised[r].detail # CannotFindGemini

\* C12, amended: ... has vision need true, is selected for the hard
\* no-research model without the classifier being asked, is only ever served
\* by the gemini provider, and passes the safety-override check exactly when
\* the client held after the fallback step, or else the escalation model's
\* client, is gemini's; otherwise it ends in the status 500 error of that check.
C12_ShortFollowUpNeedsVision ==
    \A r \in Reqs :
        ShortFollowUp(request[r]) =>
            /\ should_use_vision_model(request[r])
            /\ classifier_calls[r] = 0
            /\ pc[r] = "selected" => target_model[r] = settings.hard_no_research_model
            /\ \A i \in DOMAIN generated[r] : generated[r][i].provider = "gemini"
            /\ resolutions[r] # <<>> /\ resolutions[r][Decided(r)].got # NoClient =>
                 LET L == resolutions[r] IN
                 IF \E i \in Decided(r)..Len(L) : L[i].got = "gemini"
                 THEN /\ generated[r] # <<>>
                      /\ raised[r].detail # CannotFindGemini
                 ELSE /\ generated[r] = <<>>
                      /\ raised[r].status_code = 500
                      /\ raised[r].detail = CannotFindGemini

\* C12's case: the short follow-up, whose hard no-research model is not
\* gemini's, is being served by the escalation model's gemini client.
C12_Witness ==
    \E r \in Reqs :
        /\ ShortFollowUp(request[r])
        /\ ~request[r].refs_image
        /\ pc[r] = "calling"
        /\ resolutions[r][1].got \notin {"gemini", NoClient}
        /\ generated[r][1].provider = "gemini"

\* C15: in every normalized reply, usage.total_tokens equals
\* usage.prompt_tokens + usage.completion_tokens, whatever the shape of the
\* backend's reply.
C15_UsageTotalIsSum ==
    ret.fn = "format_openai_response" /\ ret.kind = "chat.completion" =>
        /\ ret.usage.has = UsageFields
        /\ ret.usage.total_tokens =
               ret.usage.prompt_tokens + ret.usage.completion_tokens

\* The service when every step of a request in flight is eventually taken:
\* the event loop runs each ready coroutine, and each classifier and backend
\* call eventually returns or fails.
Fairness ==
    /\ WF_vars(\E r \in Reqs, o \in Resolutions : Route(r, o))
    /\ WF_vars(\E r \in Reqs, rep \in ClassifierReplies : ClassifierReturns(r, rep))
    /\ WF_vars(\E r \in Reqs : Select(r))
    /\ WF_vars(\E r \in Reqs, o1 \in Resolutions, o2 \in Resolutions,
                  o3 \in Resolutions : Resolve(r, o1, o2, o3))
    /\ WF_vars(\E r \in Reqs, result \in BackendResults : GenerateReturns(r, result))
    /\ WF_vars(\E r \in Reqs : Respond(r))

SpecLive == Spec /\ Fairness

\* The response is a normalized reply.
NormalizedReply(r) == response[r].kind = "chat.completion"

\* The response is a structured error with a message and a code.
StructuredError(r) ==
    /\ response[r].kind = "error"
    /\ response[r].message # NoException
    /\ response[r].code # ""

\* C16: every request eventually ends in exactly one outcome, a normalized
\* reply or a structured error response carrying a message and a code, given
\* that each classifier and backend call eventually returns or fails.
C16_EndsInOneOutcome ==
    \A r \in Reqs :
        pc[r] = "routing" ~>
            /\ pc[r] = "done"
            /\ NormalizedReply(r) # StructuredError(r)

(***************************************************************************)
(* The store over the hours: a caller asks for the state of either         *)
(* conversation and updates it, while the clock advances.                  *)
(***************************************************************************)
EvictNext ==
    \/ \E m \in MessageLists(ConvIds, {{}}) :
          get_or_create_state(1, m) /\ UNCHANGED <<routerVars, rmwVars, callVars, histVars, confVars>>
    \/ \E hv \in BOOLEAN :
          /\ UpdateState(1, settings.hard_no_research_model, "hard", hv, FALSE)
          /\ UNCHANGED <<routerVars, rmwVars, callVars, histVars, confVars>>
    \/ Tick /\ UNCHANGED <<routerVars, rmwVars, callVars, histVars, confVars>>

SpecEvict == Init /\ [][EvictNext]_vars

\* C17: at the return of every get_or_create_state call (the only operation
\* that changes the store's keys) the store holds at most max_conversations
\* states.
C17_StoreWithinCapacity ==
    Cardinality(Keys(states)) <= max_conversations

(***************************************************************************)
(* The store called with what the routing engine resolves.                 *)
(***************************************************************************)
\* The tiers route_and_process can hold in model_tier once it has selected.
RouterTiers ==
    {heuristic_route(q).model_tier :
        q \in {x \in ChatRequests \ {NoRequest} :
                  heuristic_route(x).branch # "classifier"}} \cup
    {classified_route(q, cat).model_tier :
        q \in {x \in ChatRequests \ {NoRequest} :
                  heuristic_route(x).branch = "classifier"},
        cat \in Labels}

RoutedNext ==
    \/ \E t \in Tasks, m \in MessageLists({"c1"}, SUBSET Keywords) :
          get_or_create_state(t, m) /\ UNCHANGED <<routerVars, rmwVars, callVars, histVars, confVars>>
    \/ \E t \in Tasks, tier \in RouterTiers, hv \in BOOLEAN, hh \in BOOLEAN :
          /\ UpdateState(t, settings.hard_no_research_model, tier, hv, hh)
          /\ UNCHANGED <<routerVars, rmwVars, callVars, histVars, confVars>>

SpecRouted == Init /\ [][RoutedNext]_vars

\* C18: every ConversationState, stored or held by a caller, has an
\* active_model_tier among simple, hard, escalation and research, after any
\* sequence of get_or_create_state and update_state_after_routing calls made
\* with the tiers the routing engine resolves.
C18_TierIsEnumerated ==
    /\ \A c \in ConvIds :
           states[c] # NoObj => heap[states[c]].active_model_tier \in Tiers
    /\ \A t \in Tasks :
           handle[t] # NoObj => heap[handle[t]].active_model_tier \in Tiers

\* C18's case: a state inside its vision window whose tier the last update
\* set to research.
C18_Witness ==
    \E c \in ConvIds :
        /\ states[c] # NoObj
        /\ heap[states[c]].active_model_tier = "research"
        /\ heap[states[c]].vision_sticky_count = VisionStickyTurns - 1

EscalationPhrases ==
    {<<"escalate">>, <<"escalate", Blank, "this">>, <<"escalate", Blank, "me">>}

\* C19: is_escalation_request(text) is true iff the trimmed, lower-cased text
\* is exactly "escalate", "escalate this" or "escalate me"; "please escalate
\* this issue", which only contains one, is no escalation request and does not
\* take the escalation branch of the router.
C19_EscalationIsExactMatch ==
    ret.fn = "is_escalation_request" =>
        /\ ret.value <=> lower(strip(call.user_prompt)) \in EscalationPhrases
        /\ ret.branch = "escalation" <=> ret.value
        /\ call.user_prompt = <<"Escalate", Blank, "This">> => ret.value
        /\ call.user_prompt = PleaseEscalateThisIssue =>
             ~ret.value /\ ret.branch # "escalation"

\* C19's case: "please escalate this issue" was tested and found no
\* escalation request.
C19_Witness ==
    /\ ret.fn = "is_escalation_request"
    /\ call.user_prompt = PleaseEscalateThisIssue
    /\ ~ret.value

\* The three conditions of C20 on the trimmed, lower-cased text.
StartsWithTrigger(text) ==
    \E trigger \in imperative_triggers \cup polite_triggers : startswith(text, trigger)

ShortWithQuestionTrigger(text) ==
    /\ len(text) < 100
    /\ \E trigger \in question_triggers : contains(text, trigger)

ResearchThenWords(text) ==
    /\ text # <<>>
    /\ first_word(text) = <<"research">>
    /\ Cardinality(word_starts(text)) - 1 \in 1..9

\* C20: is_research_request(text) is true exactly when the trimmed, lower-cased
\* text starts with an imperative or polite trigger, or is under 100
\* characters and contains a question trigger, or has "research" as its first
\* word followed by 1 to 9 more words; a trigger only in the middle of the
\* text does not count, and the contains-check never fires at 100 characters
\* or more.
C20_ResearchTriggers ==
    ret.fn = "is_research_request" =>
        LET text == lower(strip(call.user_prompt)) IN
        /\ ret.value <=> \/ StartsWithTrigger(text)
                         \/ ShortWithQuestionTrigger(text)
                         \/ ResearchThenWords(text)
        /\ call.user_prompt = ResearchTheHistoryOfRome => ret.value
        /\ call.user_prompt = IThinkWeShouldResearch => ~ret.value
        /\ len(text) >= 100 /\ ~StartsWithTrigger(text) /\ ~ResearchThenWords(text) =>
             ~ret.value

\* C20's case: a question trigger inside a text of 100 characters or more,
\* which is no research request.
C20_Witness ==
    /\ ret.fn = "is_research_request"
    /\ \E trigger \in question_triggers :
          contains(lower(strip(call.user_prompt)), trigger)
    /\ len(lower(strip(call.user_prompt))) >= 100
    /\ ~ret.value

(***************************************************************************)
(* One caller of the store that keeps, of each call it makes, the          *)
(* arguments and the store as the call found it.                           *)
(***************************************************************************)
\* The record of a call by task t: m and a are the arguments (NoMessages or
\* NoArgs where the function takes none), st the dict as
\* _cleanup_old_conversations left it.
Recorded(fn, t, m, a, st) ==
    [fn |-> fn, task |-> t, m |-> m, args |-> a, states |-> states, heap |-> heap,
     last_cleanup |-> last_cleanup, now |-> now, swept |-> st]

RecordedGet(t, m) ==
    \E st \in cleanup_old_conversations(states, heap, last_cleanup, now) :
        /\ lookup_or_create(st, t, m)
        /\ last' = Recorded("get_or_create_state", t, m, NoArgs, st)
    /\ UNCHANGED <<routerVars, rmwVars, callVars, turns, confVars>>

RecordedUpdate(t, a) ==
    /\ UpdateState(t, a.selected_model, a.tier, a.had_vision, a.had_heavy_context)
    /\ last' = Recorded("update_state_after_routing", t, NoMessages, a, states)
    /\ UNCHANGED <<routerVars, rmwVars, callVars, turns, confVars>>

\* Conversation c1 under get_or_create_state and update_state_after_routing
\* calls with every tier, within the hour of the store's construction.
OpsNext ==
    \/ \E m \in MessageLists({"c1"}, SUBSET Keywords) : RecordedGet(1, m)
    \/ \E a \in UpdateArgs({settings.hard_no_research_model}, Tiers) :
          RecordedUpdate(1, a)

SpecOps == Init /\ [][OpsNext]_vars

\* The last call was get_or_create_state and found its conversation stored.
LastGetHit ==
    /\ last.fn = "get_or_create_state"
    /\ last.swept[last.m.cid] # NoObj

\* The state a call found, and the state it left, for the caller's conversation.
Found == last.heap[last.swept[last.m.cid]]
Left == heap[handle[last.task]]

\* An explicit indicator in the last message, or fewer than 30% of the old and
\* new keywords in common.
Drifted ==
    \/ last.m.marker
    \/ /\ Found.topic_keywords # {} /\ last.m.kw # {}
       /\ 10 * Cardinality(Found.topic_keywords \cap last.m.kw)
            < 3 * Cardinality(Found.topic_keywords \cup last.m.kw)

\* C21: a get_or_create_state call that hits and detects drift sets
\* vision_sticky_count, heavy_context_sticky_count and
\* message_count_since_upgrade to 0 and active_model_tier to simple, and leaves
\* has_vision_content, heavy_context_active, last_model_used and the
\* conversation's identity as they were; a hit without drift changes none of
\* the tier, the counters and the flags.
C21_DriftResetsCountersOnly ==
    LastGetHit =>
        /\ handle[last.task] = last.states[last.m.cid]
        /\ states[last.m.cid] = last.states[last.m.cid]
        /\ Left.conversation_id = Found.conversation_id
        /\ Left.has_vision_content = Found.has_vision_content
        /\ Left.heavy_context_active = Found.heavy_context_active
        /\ Left.last_model_used = Found.last_model_used
        /\ IF Drifted
           THEN /\ Left.vision_sticky_count = 0
                /\ Left.heavy_context_sticky_count = 0
                /\ Left.message_count_since_upgrade = 0
                /\ Left.active_model_tier = "simple"
           ELSE /\ Left.vision_sticky_count = Found.vision_sticky_count
                /\ Left.heavy_context_sticky_count = Found.heavy_context_sticky_count
                /\ Left.message_count_since_upgrade = Found.message_count_since_upgrade
                /\ Left.active_model_tier = Found.active_model_tier

\* C21's case: drift by keywords alone, detected on a state inside both of
\* its windows, on the hard tier.
C21_Witness ==
    /\ LastGetHit
    /\ ~last.m.marker
    /\ Drifted
    /\ Found.vision_sticky_count > 0 /\ Found.heavy_context_sticky_count > 0
    /\ Found.active_model_tier = "hard"
    /\ Left.has_vision_content /\ Left.vision_sticky_count = 0

(***************************************************************************)
(* One caller of the store that counts its update_state_after_routing      *)
(* calls on conversation c1:                                               *)
(*   window_vision  those made since the last one with had_vision true,    *)
(*                  -1 when there was none or a topic change was detected  *)
(*                  since                                                  *)
(*   quiet_vision   those made since the last one with had_vision true,    *)
(*                  whatever get_or_create_state did in between            *)
(* and the same for had_heavy_context. Counts stop at MaxTurns.            *)
(***************************************************************************)
MaxTurns == 4

NextTurn(k) == IF k < MaxTurns THEN k + 1 ELSE MaxTurns

CountedGet(t, m) ==
    \E st \in cleanup_old_conversations(states, heap, last_cleanup, now) :
        /\ lookup_or_create(st, t, m)
        /\ turns' = IF st[m.cid] = NoObj THEN NoTurns
                    ELSE IF detect_topic_change(m, heap[st[m.cid]])
                    THEN [turns EXCEPT !.window_vision = -1, !.window_heavy = -1]
                    ELSE turns
    /\ UNCHANGED <<routerVars, rmwVars, callVars, last, confVars>>

CountedUpdate(t, a) ==
    /\ UpdateState(t, a.selected_model, a.tier, a.had_vision, a.had_heavy_context)
    /\ turns' =
         [window_vision |-> IF a.had_vision THEN 0
                            ELSE IF turns.window_vision = -1 THEN -1
                            ELSE NextTurn(turns.window_vision),
          window_heavy |-> IF a.had_heavy_context THEN 0
                           ELSE IF turns.window_heavy = -1 THEN -1
                           ELSE NextTurn(turns.window_heavy),
          quiet_vision |-> IF a.had_vision THEN 0 ELSE NextTurn(turns.quiet_vision),
          quiet_heavy |-> IF a.had_heavy_context THEN 0
                          ELSE NextTurn(turns.quiet_heavy)]
    /\ UNCHANGED <<routerVars, rmwVars, callVars, last, confVars>>

TurnsNext ==
    \/ \E m \in MessageLists({"c1"}, SUBSET Keywords) : CountedGet(1, m)
    \/ \E a \in UpdateArgs({settings.hard_no_research_model}, {"simple", "hard"}) :
          CountedUpdate(1, a)

SpecTurns == Init /\ [][TurnsNext]_vars

\* C22: after an update with had_vision true and, no topic change detected
\* since, k further updates with had_vision false, should_stick_to_vision_model
\* is true iff k < 3; after an update with had_heavy_context true and k
\* further ones without, the heavy-context window is active iff k < 2.
C22_StickinessLastsBoundedTurns ==
    handle[1] # NoObj =>
        LET s == heap[handle[1]] IN
        /\ turns.window_vision # -1 =>
             (should_stick_to_vision_model(s) <=> turns.window_vision < 3)
        /\ turns.window_heavy # -1 =>
             (s.heavy_context_active /\ s.heavy_context_sticky_count > 0
                <=> turns.window_heavy < 2)
        /\ turns.window_heavy # -1 /\ turns.window_heavy < 2 =>
             should_stick_to_heavy_model(s)

\* C22's case: the third update without an image since the last with one has
\* just shut the vision window, the heavy-context window having shut before.
C22_Witness ==
    /\ handle[1] # NoObj
    /\ turns.window_vision = 3
    /\ turns.window_heavy = 4
    /\ ~should_stick_to_vision_model(heap[handle[1]])
    /\ ~should_stick_to_heavy_model(heap[handle[1]])

\* C23: a state that has received 3 update_state_after_routing calls with
\* had_vision false since the last with had_vision true has has_vision_content
\* false, whatever the state was before them (right after a topic-change reset
\* included); one that has received 2 with had_heavy_context false has
\* heavy_context_active false.
C23_FlagsAlwaysDecay ==
    handle[1] # NoObj =>
        /\ turns.quiet_vision >= 3 => ~heap[handle[1]].has_vision_content
        /\ turns.quiet_heavy >= 2 => ~heap[handle[1]].heavy_context_active

\* The last call was update_state_after_routing; Held is the state it was
\* given, as it was then.
LastUpdate == last.fn = "update_state_after_routing"
Held == last.heap[handle[last.task]]

\* C24: after an update_state_after_routing call with had_vision or
\* had_heavy_context true, active_model_tier is hard, whatever the tier
\* argument.
C24_VisionOrHeavyForcesHard ==
    LastUpdate /\ (last.args.had_vision \/ last.args.had_heavy_context) =>
        Left.active_model_tier = "hard"

\* C25: an update_state_after_routing call that leaves active_model_tier
\* different from what it was before the call sets
\* message_count_since_upgrade to 0, and one that leaves it the same adds
\* exactly 1, calls with had_vision or had_heavy_context true included.
C25_CounterFollowsTierChange ==
    LastUpdate =>
        IF Left.active_model_tier # Held.active_model_tier
        THEN Left.message_count_since_upgrade = 0
        ELSE Left.message_count_since_upgrade = Held.message_count_since_upgrade + 1

(***************************************************************************)
(* The store over the hours, asked for the state of either conversation by *)
(* a caller that keeps what each call found.                               *)
(***************************************************************************)
SweepNext ==
    \/ \E m \in MessageLists(ConvIds, {{}}) : RecordedGet(1, m)
    \/ Tick /\ UNCHANGED <<routerVars, rmwVars, callVars, histVars, confVars>>

SpecSweep == Init /\ [][SweepNext]_vars

LastGet == last.fn = "get_or_create_state"

\* The last get_or_create_state call began 3600 seconds or more after the
\* previous scanning pass, or after the store's construction.
PassWasDue == last.now - last.last_cleanup >= TicksPerHour

\* The age a state had when the call began, and the states then older than
\* the retention window.
AgeThen(o) == last.now - last.heap[o].last_activity
ExpiredThen ==
    {c \in Keys(last.states) :
        AgeThen(last.states[c]) > cleanup_after_hours * TicksPerHour}

\* C26: right after an eviction pass that scans the store, no state left has
\* last_activity older than the retention window and at most
\* max_conversations states are left.
C26_PassLeavesFreshAndBounded ==
    LastGet /\ PassWasDue =>
        /\ \A c \in Keys(last.swept) :
               /\ last.swept[c] = last.states[c]
               /\ AgeThen(last.swept[c]) <= cleanup_after_hours * TicksPerHour
        /\ Cardinality(Keys(last.swept)) <= max_conversations

\* C26's case: a pass that found a state older than the window beside one
\* inside it, and left the latter.
C26_Witness ==
    /\ LastGet /\ PassWasDue
    /\ ExpiredThen # {}
    /\ Keys(last.swept) # {}
    /\ Keys(last.swept) = Keys(last.states) \ ExpiredThen

\* The states a pass removed although they were inside the retention window.
RemovedForCapacity == (Keys(last.states) \ ExpiredThen) \ Keys(last.swept)

\* C27: every state a pass removes for capacity has last_activity less than or
\* equal to that of every state it keeps; it removes exactly the excess of the
\* unexpired states over max_conversations, and none when they are at or
\* under max_conversations.
C27_CapacityEvictsOldestOnly ==
    LastGet /\ PassWasDue =>
        LET unexpired == Keys(last.states) \ ExpiredThen IN
        /\ \A r \in RemovedForCapacity : \A k \in Keys(last.swept) :
               last.heap[last.states[r]].last_activity
                   <= last.heap[last.states[k]].last_activity
        /\ Cardinality(RemovedForCapacity) =
               IF Cardinality(unexpired) > max_conversations
               THEN Cardinality(unexpired) - max_conversations
               ELSE 0

\* C27's case: of two states inside the window, a pass removed the older.
C27_Witness ==
    /\ LastGet /\ PassWasDue
    /\ \E r \in RemovedForCapacity : \E k \in Keys(last.swept) :
           last.heap[last.states[r]].last_activity
               < last.heap[last.states[k]].last_activity

\* C28: get_or_create_state runs the eviction pass before its lookup, and the
\* pass scans only when 3600 seconds or more have passed since the previous
\* scanning pass or the store's construction: then it stamps the time, and a
\* conversation found expired is looked up after its removal, so that the call
\* creates its state anew; otherwise the call removes nothing and keeps the
\* stamp, even with expired states or a store over capacity.
C28_PassIsHourlyAndFirst ==
    LastGet =>
        IF PassWasDue
        THEN /\ last_cleanup = last.now
             /\ last.m.cid \in ExpiredThen =>
                  /\ last.swept[last.m.cid] = NoObj
                  /\ Left = ConversationState(last.m.cid, last.m.kw, last.now)
        ELSE /\ last_cleanup = last.last_cleanup
             /\ last.swept = last.states
             /\ \A c \in Keys(last.states) : states[c] = last.states[c]

\* C28's case: a call within the hour of the previous pass that found an
\* expired state in a store over capacity, and removed nothing.
C28_Witness ==
    /\ LastGet /\ ~PassWasDue
    /\ last.last_cleanup > 0
    /\ ExpiredThen # {}
    /\ Cardinality(Keys(last.states)) > max_conversations
    /\ Keys(states) = Keys(last.states)

\* The first of the four labels, in their order, among those a text contains.
FirstContained(labels) ==
    IF "simple_no_research" \in labels THEN "simple_no_research"
    ELSE IF "simple_research" \in labels THEN "simple_research"
    ELSE IF "hard_no_research" \in labels THEN "hard_no_research"
    ELSE "hard_research"

\* The classifier call completed with a reply carrying a text, from a client
\* of whichever reply shape.
CarriesText(r) ==
    /\ pc[r] = "classified"
    /\ reply[r].kind \in {"content", "dict_content"}

\* C29: when the classifier call completes with a reply whose text, or whose
\* category field when the text is a JSON object, contains one of the four
\* labels, classify_message returns the first label it contains, in the order
\* simple_no_research, simple_research, hard_no_research, hard_research,
\* whichever provider's reply shape carried the text; it returns the default
\* when no label is contained.
C29_LabelFromAnyReplyShape ==
    \A r \in Reqs :
        CarriesText(r) =>
            IF reply[r].text.labels # {}
            THEN category[r] = FirstContained(reply[r].text.labels)
            ELSE category[r] = DefaultLabel

\* The request took the else branch of the if/elif chain.
ClassifierBranch(r) ==
    /\ Len(request[r].images) > 0
    /\ heuristic_route(request[r]).branch = "classifier"

\* C30: in the classifier branch the label is mapped to the logical model
\* configured for it, never to the fallback model by default, and the tier
\* resolved is hard iff the label contains "hard", else simple.
C30_LabelSelectsConfiguredModel ==
    \A r \in Reqs :
        pc[r] = "selected" /\ ClassifierBranch(r) =>
            /\ category[r] \in Labels
            /\ category[r] = "simple_no_research" =>
                 target_model[r] = settings.simple_no_research_model
            /\ category[r] = "simple_research" =>
                 target_model[r] = settings.simple_research_model
            /\ category[r] = "hard_no_research" =>
                 target_model[r] = settings.hard_no_research_model
            /\ category[r] = "hard_research" =>
                 target_model[r] = settings.hard_research_model
            /\ target_model[r] # settings.fallback_model
            /\ model_tier[r] =
                 IF category[r] \in {"hard_no_research", "hard_research"}
                 THEN "hard" ELSE "simple"

\* C30's case: the label hard_research, selected for the hard research model
\* on the hard tier.
C30_Witness ==
    \E r \in Reqs :
        /\ pc[r] = "selected" /\ ClassifierBranch(r)
        /\ classifier_calls[r] = 1
        /\ category[r] = "hard_research"
        /\ target_model[r] = settings.hard_research_model
        /\ model_tier[r] = "hard"

(***************************************************************************)
(* The model a normalized reply names                                      *)
(***************************************************************************)
\* The target step 4 selected for request r, from its heuristics or from the
\* classifier's label.
SelectedTarget(r) ==
    IF heuristic_route(request[r]).branch # "classifier"
    THEN heuristic_route(request[r]).target_model
    ELSE classified_route(request[r], category[r]).target_model

\* The look-ups made before any vision override: the target's, and the
\* fallback's after a miss.
LookupsBeforeOverride(r) == IF resolutions[r][1].got = NoClient THEN 2 ELSE 1

\* C31: the model field of a normalized reply names the logical model whose
\* resolved client served the request: the escalation model when the vision
\* override forced it, else the fallback model when the target missed, else
\* the target selected; the client called and the model id passed to
\* generate_response are those of the last look-up, made under that name.
C31_ReplyNamesServingModel ==
    \A r \in Reqs :
        pc[r] \in {"returned", "done"} /\ response[r].kind = "chat.completion" =>
            LET L == resolutions[r]
                g == generated[r][1]
            IN  /\ Len(generated[r]) = 1
                /\ L[1].name = SelectedTarget(r)
                /\ response[r].model =
                      IF Len(L) > LookupsBeforeOverride(r)
                      THEN settings.escalation_model
                      ELSE IF L[1].got = NoClient THEN settings.fallback_model
                      ELSE SelectedTarget(r)
                /\ g.model = response[r].model
                /\ L[Len(L)].name = response[r].model
                /\ L[Len(L)].got = g.provider
                /\ g.provider # NoClient
                /\ client[r] = g.provider

\* C31's case: the target missed, the fallback resolved to a client that is
\* not gemini's, the vision override replaced it, and the reply names the
\* escalation model although another target was selected.
C31_Witness ==
    \E r \in Reqs :
        /\ pc[r] = "done"
        /\ response[r].kind = "chat.completion"
        /\ Len(resolutions[r]) = 3
        /\ SelectedTarget(r) # settings.escalation_model
        /\ response[r].model = settings.escalation_model
        /\ generated[r][1].provider = "gemini"

(***************************************************************************)
(* Error-shaped replies and the one choices entry                          *)
(***************************************************************************)
\* A mapping with an error field.
ErrorShaped(llm_response) == llm_response.is_dict /\ "error" \in llm_response.keys

\* C32: a backend reply that is a mapping with an error field is returned
\* unchanged, whatever other fields it carries; every other reply that
\* _format_openai_response returns has exactly one choices entry, an assistant
\* message with finish reason stop.
C32_ErrorRepliesPassThrough ==
    ret.fn = "_format_openai_response" =>
        IF ErrorShaped(call.llm_response)
        THEN ~ret.raises /\ ret.reply.kind = "backend_error"
        ELSE ~ret.raises =>
                /\ ret.reply.kind = "chat.completion"
                /\ ret.reply.choices = <<[role |-> "assistant", finish_reason |-> "stop"]>>

(***************************************************************************)
(* The lifecycle of the store's entries                                    *)
(***************************************************************************)
\* The calls of the store that only read: the stickiness predicates on the
\* state the caller holds, get_state_summary on any fingerprint.
RecordedPredicate(fn, t) ==
    /\ handle[t] # NoObj
    /\ last' = Recorded(fn, t, NoMessages, NoArgs, states)
    /\ UNCHANGED <<storeVars, routerVars, rmwVars, callVars, turns, confVars>>

RecordedSummary(t, conversation_id) ==
    /\ last' = Recorded("get_state_summary", t,
                        [NoMessages EXCEPT !.cid = conversation_id], NoArgs, states)
    /\ UNCHANGED <<storeVars, routerVars, rmwVars, callVars, turns, confVars>>

\* The update of a request with an image, served by the hard model.
LifecycleArgs ==
    [selected_model : {settings.hard_no_research_model}, tier : {"hard"},
     had_vision : {TRUE}, had_heavy_context : {FALSE}]

\* Both conversations under every call of the store, as time passes.
LifecycleNext ==
    \/ \E m \in MessageLists(ConvIds, {{}}) : RecordedGet(1, m)
    \/ \E a \in LifecycleArgs : RecordedUpdate(1, a)
    \/ \E fn \in {"should_stick_to_vision_model", "should_stick_to_heavy_model"} :
          RecordedPredicate(fn, 1)
    \/ \E c \in ConvIds : RecordedSummary(1, c)
    \/ Tick /\ UNCHANGED <<routerVars, rmwVars, callVars, histVars, confVars>>

SpecLifecycle == Init /\ [][LifecycleNext]_vars

\* The entries the last call removed and added.
RemovedByLast == Keys(last.states) \ Keys(states)
AddedByLast == {c \in Keys(states) : c \notin Keys(last.states) \/ states[c] # last.states[c]}

\* A state as get_or_create_state creates it.
IsFresh(s) ==
    /\ s.active_model_tier = "simple"
    /\ s.vision_sticky_count = 0
    /\ s.heavy_context_sticky_count = 0
    /\ s.message_count_since_upgrade = 0
    /\ ~s.has_vision_content
    /\ ~s.heavy_context_active

\* C33: entries are removed only by the eviction pass inside
\* get_or_create_state; get_or_create_state adds exactly one entry (tier
\* simple, counters 0, flags false) when its look-up finds the fingerprint
\* absent and none when it finds it, and leaves every other entry as it was;
\* update_state_after_routing, the stickiness predicates and
\* get_state_summary add and remove nothing and modify no state other than
\* the one passed (the readers modify none).
C33_EntriesFollowLifecycle ==
    /\ last.fn = "get_or_create_state" =>
          /\ RemovedByLast # {} => PassWasDue
          /\ \A c \in Keys(last.swept) : last.swept[c] = last.states[c]
          /\ IF last.m.cid \in Keys(last.swept)
             THEN states = last.swept
             ELSE /\ Keys(states) = Keys(last.swept) \cup {last.m.cid}
                  /\ \A c \in Keys(last.swept) : states[c] = last.swept[c]
                  /\ IsFresh(heap[states[last.m.cid]])
          /\ \A c \in Keys(last.swept) \ {last.m.cid} :
                 heap[states[c]] = last.heap[states[c]]
    /\ last.fn = "update_state_after_routing" =>
          /\ states = last.states
          /\ \A o \in Oids \ {handle[last.task]} : heap[o] = last.heap[o]
    /\ last.fn \in {"should_stick_to_vision_model", "should_stick_to_heavy_model",
                    "get_state_summary"} =>
          /\ states = last.states
          /\ heap = last.heap

\* C33's case: an update that changed the state passed while another
\* conversation's state, itself updated before, is stored beside it.
C33_Witness ==
    /\ last.fn = "update_state_after_routing"
    /\ Cardinality(Keys(states)) = 2
    /\ heap[handle[last.task]] # last.heap[handle[last.task]]
    /\ \E c \in Keys(states) :
          /\ states[c] # handle[last.task]
          /\ ~IsFresh(heap[states[c]])

(***************************************************************************)
(* Two callers on different conversations: task 1 reads and updates        *)
(* conversation c1's state, task 2 conversation c2's, each suspended       *)
(* between its get_or_create_state and its update_state_after_routing,     *)
(* within the hour of the last eviction pass.                              *)
(***************************************************************************)
ConversationOf(t) == IF t = 1 THEN "c1" ELSE "c2"

\* The stored state of each conversation, if any.
SnapshotOf(c) ==
    IF states[c] = NoObj THEN NoBase ELSE [present |-> TRUE, s |-> heap[states[c]]]

PairGet(t, m) ==
    /\ rmw[t].phase = "idle"
    /\ m.cid = ConversationOf(t)
    /\ get_or_create_state(t, m)
    /\ rmw' = [rmw EXCEPT ![t] = [phase |-> "got", m |-> m, args |-> NoArgs]]
    /\ base' = IF \A u \in Tasks : rmw[u].phase = "idle"
               THEN [c \in ConvIds |-> SnapshotOf(c)] ELSE base
    /\ UNCHANGED <<routerVars, callVars, histVars, confVars>>

\* The updates of requests of either tier, with and without an image.
PairArgs ==
    [selected_model : {settings.hard_no_research_model}, tier : {"simple", "hard"},
     had_vision : BOOLEAN, had_heavy_context : {FALSE}]

PairNext ==
    \/ \E t \in Tasks, m \in MessageLists(ConvIds, {{}}) : PairGet(t, m)
    \/ \E t \in Tasks, a \in PairArgs : RmwUpdate(t, a)
    \/ RmwEnd

SpecPair == Init /\ [][PairNext]_vars

\* The fields C34 names.
RoutingMemory(s) ==
    [active_model_tier |-> s.active_model_tier,
     vision_sticky_count |-> s.vision_sticky_count,
     heavy_context_sticky_count |-> s.heavy_context_sticky_count,
     has_vision_content |-> s.has_vision_content,
     heavy_context_active |-> s.heavy_context_active,
     last_model_used |-> s.last_model_used,
     message_count_since_upgrade |-> s.message_count_since_upgrade]

HeldNext ==
    \/ \E t \in Tasks :
          RecordedGet(t, [cid |-> ConversationOf(t), marker |-> FALSE, kw |-> {}])
    \/ \E t \in Tasks, a \in LifecycleArgs : RecordedUpdate(t, a)
    \/ Tick /\ UNCHANGED <<routerVars, rmwVars, callVars, histVars, confVars>>

SpecHeld == Init /\ [][HeldNext]_vars

\* C38: the state a caller passes to update_state_after_routing, handed out
\* to it by get_or_create_state, was the store's entry for its fingerprint
\* when the update began: no eviction pass of another caller removed or
\* replaced it in between.
C38_HeldStateStillStored ==
    last.fn = "update_state_after_routing" =>
        last.states[ConversationOf(last.task)] = handle[last.task]

(***************************************************************************)
(* The fingerprint of a conversation                                       *)
(***************************************************************************)
\* The first 200 characters of the first message's extracted text.
FirstText(messages) == merge_runs(first_chars(messages[1], FingerprintChars))

\* C36: with the hash taken as injective, two message lists have the same
\* fingerprint, and so resolve to the same entry of the store, if and only if
\* they have the same number of messages and their first messages have the
\* same extracted text in the first 200 characters; so a list that has grown
\* never has the fingerprint it had before.
C36_FingerprintIsTextAndCount ==
    ret.fn = "_generate_conversation_id" =>
        /\ ret.a = ret.b <=>
              /\ Len(call.a) = Len(call.b)
              /\ Len(call.a) > 0 => FirstText(call.a) = FirstText(call.b)
        /\ Len(call.b) > Len(call.a) => ret.a # ret.b

\* C36's case: two lists of one message each, whose first texts differ only
\* after the 200th character, share a fingerprint.
C36_Witness ==
    /\ ret.fn = "_generate_conversation_id"
    /\ Len(call.a) = 1
    /\ Len(call.b) = 1
    /\ merge_runs(call.a[1]) # merge_runs(call.b[1])
    /\ ret.a = ret.b

(***************************************************************************)
(* The configuration reloaded while a request is suspended                 *)
(***************************************************************************)
\* The versions the configuration file goes through.
MaxVersions == 2

\* routing_config.yaml is edited: its modification time changes.
EditConfig ==
    /\ config_file < MaxVersions
    /\ config_file' = config_file + 1
    /\ UNCHANGED <<loaded, config_read>>
    /\ UNCHANGED <<storeVars, routerVars, rmwVars, callVars, histVars>>

\* Where the coroutine of a request can be while another one runs: before it
\* starts, at an await (request.json(), the classifier's and the target's
\* generate_response), or after it has answered.
SuspensionPoints == {"idle", "routing", "classifying", "calling", "done"}

\* Another request enters the endpoint and calls settings.reload_if_changed()
\* on the one global `settings`.
OtherRequestReloads ==
    /\ \A r \in Reqs : pc[r] \in SuspensionPoints
    /\ loaded # config_file
    /\ loaded' = reload_if_changed(config_file, loaded)
    /\ UNCHANGED <<config_file, config_read>>
    /\ UNCHANGED <<storeVars, routerVars, rmwVars, callVars, histVars>>

ReloadNext == Next \/ EditConfig \/ OtherRequestReloads

SpecReload == Init /\ [][ReloadNext]_vars

\* C37: every configuration value read while routing one request (the target
\* model names, the fallback and escalation model names, the token threshold)
\* comes from one version of the configuration, also when another request
\* reloads the configuration while this one is suspended at the classifier
\* call.
C37_OneConfigurationVersion ==
    \A r \in Reqs : Cardinality(config_read[r]) <= 1

(***************************************************************************)
(* One request routed twice while the conversation state store changes     *)
(***************************************************************************)
\* Requests of one message under the token threshold, and the classifier
\* replies and registry outcomes they meet.
RerunRequests ==
    {q \in ChatRequests :
        /\ q # NoRequest
        /\ Len(q.images) = 1
        /\ ~q.refs_image /\ ~q.research
        /\ q.tokens = token_usage_threshold}
RerunReplies ==
    {rep \in ClassifierReplies :
        /\ rep.kind = "content"
        /\ rep.text.form = "plain"
        /\ Cardinality(rep.text.labels) <= 1}
RerunResolutions == {NoClient, "openai", "gemini"}

\* What a finished run of route_and_process is remembered by.
RunRecord(r) ==
    [fn |-> "route_and_process", request |-> request[r], category |-> category[r],
     model_tier |-> model_tier[r], resolutions |-> resolutions[r],
     generated |-> generated[r]]

\* The first run that reached the registry is remembered.
Remember(r) ==
    /\ pc[r] = "done"
    /\ resolutions[r] # <<>>
    /\ last = NoLast
    /\ last' = RunRecord(r)
    /\ UNCHANGED <<storeVars, routerVars, rmwVars, callVars, turns, confVars>>

\* The same request is sent again and again, while the callers of the store
\* create conversation c1's state and open its vision window.
RerunNext ==
    \/ \E r \in Reqs, q \in RerunRequests :
          /\ last # NoLast => q = last.request
          /\ Receive(r, q)
    \/ \E r \in Reqs, o \in {NoClient, "openai"} : Route(r, o)
    \/ \E r \in Reqs, rep \in RerunReplies : ClassifierReturns(r, rep)
    \/ \E r \in Reqs : Select(r)
    \/ \E r \in Reqs, o1 \in RerunResolutions :
          \E o2 \in IF o1 = NoClient THEN RerunResolutions ELSE {NoClient} :
              \E o3 \in RerunResolutions : Resolve(r, o1, o2, o3)
    \/ \E r \in Reqs :
          GenerateReturns(r, [raises |-> FALSE, error |-> "", shape |-> "choices"])
    \/ \E r \in Reqs : Respond(r)
    \/ \E r \in Reqs : Remember(r)
    \/ \E r \in Reqs : Return(r)
    \/ \E m \in MessageLists({"c1"}, {{}}) :
          /\ get_or_create_state(1, m)
          /\ UNCHANGED <<routerVars, rmwVars, callVars, histVars, confVars>>
    \/ /\ UpdateState(1, settings.hard_no_research_model, "hard", TRUE, FALSE)
       /\ UNCHANGED <<routerVars, rmwVars, callVars, histVars, confVars>>

SpecRerun == Init /\ [][RerunNext]_vars

\* The target selected for the request in flight, before and after the
\* registry look-ups.
SelectedNow(r) ==
    IF resolutions[r] = <<>> THEN target_model[r] ELSE resolutions[r][1].name

\* The registry answered the look-ups of two runs alike.
RegistryAgrees(L1, L2) ==
    \A i \in DOMAIN L1 : \A j \in DOMAIN L2 :
        L1[i].name = L2[j].name => L1[i].got = L2[j].got

\* The run in flight is of the remembered request and has selected.
SameRequestSelected(r) ==
    /\ last.fn = "route_and_process"
    /\ request[r] = last.request
    /\ pc[r] \in {"selected", "calling", "returned", "done"}

\* C35: two runs of the same request, under one configuration, select the
\* same target model and tier whenever the classifier label they got, if
\* both asked, is the same, and call the same provider with the same model
\* when the registry answered alike, whatever the conversation state store
\* held during each.
C35_SelectionIgnoresStore ==
    \A r \in Reqs :
        SameRequestSelected(r) =>
            /\ (category[r] = "none") = (last.category = "none")
            /\ category[r] = last.category =>
                  /\ SelectedNow(r) = last.resolutions[1].name
                  /\ model_tier[r] = last.model_tier
                  /\ resolutions[r] # <<>> /\ RegistryAgrees(resolutions[r], last.resolutions) =>
                        /\ resolutions[r] = last.resolutions
                        /\ generated[r] = last.generated

\* C35's case: the request was first routed while the store was empty and is
\* being served again, by the same provider, while the store holds a state in
\* its vision window.
C35_Witness ==
    \E r \in Reqs :
        /\ SameRequestSelected(r)
        /\ pc[r] = "calling"
        /\ category[r] = last.category
        /\ generated[r] = last.generated
        /\ ~should_use_vision_model(request[r])
        /\ states["c1"] # NoObj
        /\ heap[states["c1"]].vision_sticky_count > 0

====
